---- MODULE Spec2Model ----
(***************************************************************************)
(* Graph engine of the "better graph" plugin.                              *)
(*                                                                         *)
(*  - the d3 GraphRenderer (src/GraphRenderer.ts): the force simulation's  *)
(*    timer, its alpha, and the operations that start, stop and replace it *)
(*  - BetterGraphView.loadGraphData (src/GraphView.ts): node creation,     *)
(*    tag collection and the three link builders                           *)
(*                                                                         *)
(* Strings of the program are sequences of one-character strings, so that  *)
(* template strings, startsWith and the regular expression are computed    *)
(* on characters.  Numbers in [0,1] (alpha, similarity, threshold) are     *)
(* integers in thousandths.                                                *)
(***************************************************************************)
EXTENDS Integers, Sequences, FiniteSets, TLC

VARIABLES
    \* ---- d3 GraphRenderer ----
    sims,               \* the d3 simulations created so far that can still tick or be reached;
                        \* the last one is this.simulation
    isAnimating,        \* GraphRenderer.isAnimating
    svg,                \* "none" (not created), "attached", "removed"
    dragging,           \* a drag gesture is in progress on a node element
    destroyed,          \* history: destroy() has been called
    tickedAfterDestroy, \* history: a simulation tick fired after destroy()
    \* ---- BetterGraphView ----
    vault,              \* per markdown file: cached embedding and metadata cache
    useEmbeddings,      \* plugin.settings.useEmbeddings
    similarityThreshold,\* plugin.settings.similarityThreshold, in thousandths
    showTags,           \* view.filters.showTags
    nodes,              \* view.nodes
    links,              \* view.links
    loadStatus,         \* "none", "done" (loadGraphData resolved), "threw" (it rejected)
    lastLoad,           \* history: <<the settings the last loadGraphData ran with>>, or <<>>
    firstRun,           \* history: <<settings and id sets of the first completed
                        \* loadGraphData>>, or <<>>
    \* ---- the plugin: embedding generation ----
    plugin,             \* which plugin class runs: "BetterGraphPlugin" or "CombinedPlugin"
    openaiApiKey,       \* plugin.settings.openaiApiKey is set
    runs,               \* the calls of generateEmbeddingsForAllNotes made so far
    stored,             \* the files that have an entry in data.embeddings
    succeeded,          \* history: the files a run processed without an error
    pacing,             \* history: what happened last, a getEmbedding request or a delay
    unpaced,            \* history: a getEmbedding request followed another one with no
                        \* delay in between
    \* ---- the view's life cycle ----
    viewSource,         \* which BetterGraphView runs: "GraphView.ts" or "part_001"
    phase,              \* "created", "opening" (onOpen awaits loadGraphData), "open",
                        \* "failed" (onOpen rejected)
    pending,            \* the calls of loadGraphData that have not settled yet
    rendererData,       \* <<ids of the nodes and links given to the renderer>>, or <<>>
    lastRefresh,        \* history: <<whether the renderer was initialized and attached when
                        \* refresh() was last called, and what the call did>>, or <<>>
    staleRebuild,       \* history: the refresh after a generation ran updateData on a
                        \* destroyed renderer
    \* ---- calculateThicknessFromSimilarity on its own ----
    tSimilarity,        \* the argument, in thousandths
    tThreshold,         \* plugin.settings.similarityThreshold, in thousandths
    tMin,               \* plugin.settings.minLinkThickness, in thousandths
    tMax,               \* plugin.settings.maxLinkThickness, in thousandths
    tResult,            \* <<the value returned>>, or <<>> before the call
    \* ---- the force settings and the d3 simulation ----
    controlsSource,     \* which GraphControls runs: "graph/GraphControls.ts" or "main.ts"
    forces,             \* plugin.settings: repulsionForce, linkDistance, centerForce
    simForces,          \* <<the values the forces of this.simulation were built with>>,
                        \* or <<>> while there is no simulation
    reenergized,        \* history: the alpha of this.simulation has been set since the
                        \* last change of a force setting
    refreshing,         \* the calls of view.refresh() that have not settled yet
    \* ---- the nodes of the d3 simulation ----
    pos,                \* per node of the snapshot: its position x,y, one of a few points
    fixed,              \* per node: <<its fx,fy>>, or <<>> when they are not set
    subject,            \* <<the node a drag gesture is on>>, <<Detached>> when the
                        \* snapshot was replaced during the gesture, or <<>>
    lastPointer,        \* history, per node: <<the last pointer position of a drag of
                        \* the node>>, or <<>>
    tickedSince,        \* history, per node: a tick has fired since a drag of the node
                        \* ended
    \* ---- the canvas GraphRenderer ----
    cNodes,             \* this.nodes: per node its id, x and vx in thousandths of a pixel
                        \* (all nodes on the horizontal line through the centre)
    cLinks,             \* this.links: source and target ids
    snapshotNo,         \* how many node arrays the renderer has been given so far
    isDragging,         \* this.isDragging
    dragNode,           \* this.dragNode: <<the array it came from and its index there>>,
                        \* or <<>> for null
    dragPointer,        \* history: <<the position the last mousemove of the current drag
                        \* supplied>>, or <<>>
    hit,                \* history: <<what the mousedown of the current gesture chose and
                        \* what was within reach>>, or <<>>
    zoom,               \* this.camera.zoom, in thousandths
    frames,             \* animation frames run so far
    crashed,            \* the animation callback threw, no further frame is requested
    \* ---- the plugin's data file ----
    data,               \* what saveData wrote last: the paths that have an entry in
                        \* data.embeddings and in data.embeddingMetadata, and data.settings
    settings,           \* this.settings, a value that every change of a setting replaces
    writers,            \* the calls of storeEmbeddingLocally, storeEmbeddingMetadata and
                        \* saveSettings that have loaded the data and not saved it yet
    completed,          \* history: the paths a storeEmbeddingLocally call has resolved for
    \* ---- the graph modal ----
    embedded,           \* what getEmbeddingLocally returns for each file
    modalUse,           \* plugin.settings.useEmbeddings as the modal's controls set it
    modalThreshold,     \* plugin.settings.similarityThreshold, in thousandths
    modalNodes,         \* BetterGraphModal.nodes
    modalLinks,         \* BetterGraphModal.links
    loads,              \* the loadGraphData calls suspended at an await: the nodeMap of each
    builtWith,          \* history: the settings the last loadGraphData built its links with
    observed            \* history: the graph the last animation-frame callback worked on

rvars == <<sims, isAnimating, svg, dragging, destroyed, tickedAfterDestroy>>
gvars == <<vault, useEmbeddings, similarityThreshold, showTags, nodes, links, loadStatus, lastLoad, firstRun>>
evars == <<plugin, openaiApiKey, runs, stored, succeeded, pacing, unpaced>>
\* everything that is neither the renderer's nor the view's graph
wvars == <<viewSource, phase, pending, rendererData, lastRefresh, staleRebuild>>
tvars == <<tSimilarity, tThreshold, tMin, tMax, tResult>>
fvars == <<controlsSource, forces, simForces, reenergized, refreshing>>
pvars == <<pos, fixed, subject, lastPointer, tickedSince>>
cvars == <<cNodes, cLinks, snapshotNo, isDragging, dragNode, dragPointer, hit, zoom, frames, crashed>>
svars == <<data, settings, writers, completed>>
mvars == <<embedded, modalUse, modalThreshold, modalNodes, modalLinks, loads, builtWith, observed>>
yvars == <<fvars, pvars, cvars, svars, mvars>>
\* what the actions on the force settings leave alone
forcesFrame == <<rvars, gvars, evars, wvars, tvars, pvars, cvars, svars, mvars>>
\* what the actions on the nodes of the simulation leave alone
nodesFrame == <<rvars, gvars, evars, wvars, tvars, fvars, cvars, svars, mvars>>
\* what the actions on the canvas renderer leave alone
canvasFrame == <<rvars, gvars, evars, wvars, tvars, fvars, pvars, svars, mvars>>
\* what the actions on the data file leave alone
dataFrame == <<rvars, gvars, evars, wvars, tvars, fvars, pvars, cvars, mvars>>
\* what the actions of the graph modal leave alone
modalFrame == <<rvars, gvars, evars, wvars, tvars, fvars, pvars, cvars, svars>>
xvars == <<evars, wvars, tvars, yvars>>
vars == <<sims, isAnimating, svg, dragging, destroyed, tickedAfterDestroy,
          vault, useEmbeddings, similarityThreshold, showTags, nodes, links, loadStatus, lastLoad, firstRun,
          plugin, openaiApiKey, runs, stored, succeeded, pacing, unpaced,
          viewSource, phase, pending, rendererData, lastRefresh, staleRebuild,
          tSimilarity, tThreshold, tMin, tMax, tResult,
          controlsSource, forces, simForces, reenergized, refreshing,
          pos, fixed, subject, lastPointer, tickedSince,
          cNodes, cLinks, snapshotNo, isDragging, dragNode, dragPointer, hit, zoom, frames, crashed,
          data, settings, writers, completed,
          embedded, modalUse, modalThreshold, modalNodes, modalLinks, loads, builtWith, observed>>


(***************************************************************************)
(* d3 GraphRenderer                                                        *)
(***************************************************************************)

\* Bounds of the model
MaxSims == 2          \* simulations that exist at the same time
TicksPerStep == 50    \* animation frames that one Tick step stands for

\* simulation parameters, in thousandths
AlphaInitial == 1000  \* d3.forceSimulation starts with alpha = 1
AlphaMin == 1         \* .alphaMin(0.001)
AlphaDecay == 20      \* .alphaDecay(0.02)
AlphaRestart == 300   \* .alpha(0.3) and .alphaTarget(0.3)

\* this.simulation
HasSimulation == Len(sims) > 0
Current == Len(sims)

\* d3.forceSimulation(nodes): alpha 1, alphaTarget 0, timer started
NewSimulation == [running |-> TRUE, alpha |-> AlphaInitial, alphaTarget |-> 0]

\* one timer callback of a simulation: alpha += (alphaTarget - alpha) * alphaDecay
AlphaAfterTick(alpha, alphaTarget) ==
    alpha + (((alphaTarget - alpha) * AlphaDecay) \div 1000)

\* alpha after up to n consecutive timer callbacks (n >= 1); the timer stops, and
\* with it the callbacks, once alpha < alphaMin
RECURSIVE AlphaAfter(_, _, _)
AlphaAfter(alpha, alphaTarget, n) ==
    LET a == AlphaAfterTick(alpha, alphaTarget)
    IN  IF n <= 1 \/ a < AlphaMin THEN a ELSE AlphaAfter(a, alphaTarget, n - 1)

\* alpha after the timer ran for TicksPerStep animation frames, tabulated for
\* every alpha and both values alphaTarget takes
AlphaTable ==
    [alphaTarget \in {0, AlphaRestart} |->
        [alpha \in 0..AlphaInitial |-> AlphaAfter(alpha, alphaTarget, TicksPerStep)]]

\* the simulation after one Tick step: nothing happens to a stopped timer
StepSim(s) ==
    IF ~s.running THEN s
    ELSE LET a == AlphaTable[s.alphaTarget][s.alpha]
         IN  [s EXCEPT !.alpha = a, !.running = ~(a < AlphaMin)]

\* a simulation that is not this.simulation and whose timer has stopped can never
\* tick again and is unreachable: it is dropped
RECURSIVE DropDead(_)
DropDead(ss) ==
    IF Len(ss) <= 1 THEN ss
    ELSE IF Head(ss).running THEN <<Head(ss)>> \o DropDead(Tail(ss))
         ELSE DropDead(Tail(ss))

\* all timers run in the same animation frame
RECURSIVE StepAll(_)
StepAll(ss) ==
    IF ss = <<>> THEN <<>> ELSE <<StepSim(Head(ss))>> \o StepAll(Tail(ss))

AnyRunning == \E i \in 1..Len(sims) : sims[i].running

\* GraphRenderer.initialize: setupSVG, setupSimulation, render
Initialize ==
    /\ svg = "none"
    /\ sims = <<>>
    /\ svg' = "attached"
    /\ sims' = <<NewSimulation>>
    /\ UNCHANGED <<isAnimating, dragging, destroyed, tickedAfterDestroy>>
    /\ UNCHANGED <<gvars, xvars>>

\* the d3 timer fires: every simulation whose timer runs steps and dispatches 'tick'
Tick ==
    /\ AnyRunning
    /\ sims' = DropDead(StepAll(sims))
    /\ tickedAfterDestroy' = (tickedAfterDestroy \/ destroyed)
    /\ UNCHANGED <<isAnimating, svg, dragging, destroyed>>
    /\ UNCHANGED <<gvars, xvars>>

\* simulation.alpha(0.3).restart() on this.simulation
Reenergize(ss) ==
    [ss EXCEPT ![Len(ss)] = [@ EXCEPT !.alpha = AlphaRestart, !.running = TRUE]]

\* GraphRenderer.updateForces
UpdateForces ==
    /\ HasSimulation
    /\ sims' = Reenergize(sims)
    /\ UNCHANGED <<isAnimating, svg, dragging, destroyed, tickedAfterDestroy>>
    /\ UNCHANGED <<gvars, xvars>>

\* GraphRenderer.updateLinkForce
UpdateLinkForce ==
    /\ HasSimulation
    /\ sims' = Reenergize(sims)
    /\ UNCHANGED <<isAnimating, svg, dragging, destroyed, tickedAfterDestroy>>
    /\ UNCHANGED <<gvars, xvars>>

\* GraphRenderer.resize: only acts on the simulation when there is one
Resize ==
    /\ sims' = IF HasSimulation THEN Reenergize(sims) ELSE sims
    /\ UNCHANGED <<isAnimating, svg, dragging, destroyed, tickedAfterDestroy>>
    /\ UNCHANGED <<gvars, xvars>>

\* GraphRenderer.toggleAnimation(animate)
ToggleAnimation(animate) ==
    /\ HasSimulation
    /\ isAnimating' = animate
    /\ sims' = [sims EXCEPT ![Current] = [@ EXCEPT !.running = animate]]
    /\ UNCHANGED <<svg, dragging, destroyed, tickedAfterDestroy>>
    /\ UNCHANGED <<gvars, xvars>>

\* GraphRenderer.updateData: setupSimulation creates a new simulation and assigns it
\* to this.simulation; the previous one is neither stopped nor kept
UpdateData ==
    /\ svg # "none"
    /\ Len(DropDead(sims \o <<NewSimulation>>)) <= MaxSims
    /\ sims' = DropDead(sims \o <<NewSimulation>>)
    /\ UNCHANGED <<isAnimating, svg, dragging, destroyed, tickedAfterDestroy>>
    /\ UNCHANGED <<gvars, xvars>>

\* drag 'start' on a node element: alphaTarget(0.3).restart()
DragStart ==
    /\ svg = "attached"
    /\ HasSimulation
    /\ ~dragging
    /\ dragging' = TRUE
    /\ sims' = [sims EXCEPT ![Current] = [@ EXCEPT !.alphaTarget = AlphaRestart, !.running = TRUE]]
    /\ UNCHANGED <<isAnimating, svg, destroyed, tickedAfterDestroy>>
    /\ UNCHANGED <<gvars, xvars>>

\* drag 'end': alphaTarget(0)
DragEnd ==
    /\ dragging
    /\ HasSimulation
    /\ dragging' = FALSE
    /\ sims' = [sims EXCEPT ![Current] = [@ EXCEPT !.alphaTarget = 0]]
    /\ UNCHANGED <<isAnimating, svg, destroyed, tickedAfterDestroy>>
    /\ UNCHANGED <<gvars, xvars>>

\* GraphRenderer.destroy: stops this.simulation and removes the svg
Destroy ==
    /\ ~destroyed
    /\ destroyed' = TRUE
    /\ sims' = IF HasSimulation
               THEN DropDead([sims EXCEPT ![Current] = [@ EXCEPT !.running = FALSE]])
               ELSE sims
    /\ svg' = IF svg = "none" THEN "none" ELSE "removed"
    /\ UNCHANGED <<isAnimating, dragging, tickedAfterDestroy>>
    /\ UNCHANGED <<gvars, xvars>>


(***************************************************************************)
(* Strings and JavaScript values                                           *)
(***************************************************************************)

\* optional fields: <<>> is undefined, <<v>> is the value v
Undefined == <<>>
Some(v) == <<v>>

Digits == <<"0", "1", "2", "3", "4", "5", "6", "7", "8", "9">>
IsDigit(c) == \E d \in 1..10 : Digits[d] = c
DigitValue(c) == (CHOOSE d \in 1..10 : Digits[d] = c) - 1
IsQuote(c) == c = "\"" \/ c = "'"

\* values a frontmatter field or JSON.parse can produce
JsStr(s) == [t |-> "string", s |-> s, n |-> 0, a |-> <<>>]
JsNum(n) == [t |-> "number", s |-> <<>>, n |-> n, a |-> <<>>]
JsArr(a) == [t |-> "array", s |-> <<>>, n |-> 0, a |-> a]
JsObj == [t |-> "object", s |-> <<>>, n |-> 0, a |-> <<>>]
JsUndefined == [t |-> "undefined", s |-> <<>>, n |-> 0, a |-> <<>>]

\* String(n) for a natural number
RECURSIVE NumberToString(_)
NumberToString(n) ==
    IF n < 10 THEN <<Digits[n + 1]>> ELSE NumberToString(n \div 10) \o <<Digits[(n % 10) + 1]>>

\* the conversion a template string `${v}` applies to an array element
JsToString(v) ==
    IF v.t = "string" THEN v.s
    ELSE IF v.t = "number" THEN NumberToString(v.n)
    ELSE <<"[", "o", "b", "j", "e", "c", "t", " ", "O", "b", "j", "e", "c", "t", "]">>

\* s.startsWith('#')
StartsWithHash(s) == Len(s) > 0 /\ s[1] = "#"

\* `#${tag}`
WithHash(s) == <<"#">> \o s

(***************************************************************************)
(* JSON.parse, for the JSON texts made of arrays, double-quoted strings    *)
(* without escapes, natural numbers and the empty object; any other text   *)
(* is a SyntaxError                                                        *)
(***************************************************************************)
ParseFail == [ok |-> FALSE, val |-> JsUndefined, pos |-> 0]
ParseOk(v, p) == [ok |-> TRUE, val |-> v, pos |-> p]

RECURSIVE SkipWs(_, _)
SkipWs(s, i) == IF i <= Len(s) /\ s[i] = " " THEN SkipWs(s, i + 1) ELSE i

\* the least index >= i of a double quote, 0 when there is none
RECURSIVE NextDoubleQuote(_, _)
NextDoubleQuote(s, i) ==
    IF i > Len(s) THEN 0 ELSE IF s[i] = "\"" THEN i ELSE NextDoubleQuote(s, i + 1)

\* the least index >= i of a single or double quote, 0 when there is none
RECURSIVE NextQuote(_, _)
NextQuote(s, i) ==
    IF i > Len(s) THEN 0 ELSE IF IsQuote(s[i]) THEN i ELSE NextQuote(s, i + 1)

RECURSIVE DigitsEnd(_, _)
DigitsEnd(s, i) == IF i <= Len(s) /\ IsDigit(s[i]) THEN DigitsEnd(s, i + 1) ELSE i

RECURSIVE DigitsValue(_, _)
DigitsValue(s, acc) ==
    IF s = <<>> THEN acc ELSE DigitsValue(Tail(s), acc * 10 + DigitValue(Head(s)))

RECURSIVE ParseValue(_, _)
RECURSIVE ParseElements(_, _, _)
ParseValue(s, i) ==
    IF i > Len(s) THEN ParseFail
    ELSE IF s[i] = "\"" THEN
        LET j == NextDoubleQuote(s, i + 1)
        IN  IF j = 0 THEN ParseFail ELSE ParseOk(JsStr(SubSeq(s, i + 1, j - 1)), j + 1)
    ELSE IF IsDigit(s[i]) THEN
        LET j == DigitsEnd(s, i)
        IN  ParseOk(JsNum(DigitsValue(SubSeq(s, i, j - 1), 0)), j)
    ELSE IF s[i] = "[" THEN
        LET k == SkipWs(s, i + 1)
        IN  IF k <= Len(s) /\ s[k] = "]" THEN ParseOk(JsArr(<<>>), k + 1)
            ELSE ParseElements(s, k, <<>>)
    ELSE IF s[i] = "{" THEN
        LET k == SkipWs(s, i + 1)
        IN  IF k <= Len(s) /\ s[k] = "}" THEN ParseOk(JsObj, k + 1) ELSE ParseFail
    ELSE ParseFail

ParseElements(s, i, acc) ==
    LET v == ParseValue(s, i)
    IN  IF ~v.ok THEN ParseFail
        ELSE LET k == SkipWs(s, v.pos)
             IN  IF k > Len(s) THEN ParseFail
                 ELSE IF s[k] = "," THEN ParseElements(s, SkipWs(s, k + 1), Append(acc, v.val))
                 ELSE IF s[k] = "]" THEN ParseOk(JsArr(Append(acc, v.val)), k + 1)
                 ELSE ParseFail

\* JSON.parse(text): ok = FALSE stands for the SyntaxError it throws
JsonParse(s) ==
    LET v == ParseValue(s, SkipWs(s, 1))
    IN  IF v.ok /\ SkipWs(s, v.pos) = Len(s) + 1 THEN v ELSE ParseFail

\* text.match(/["']([^"']+)["']/g): the matches from left to right (null and the
\* empty list are not told apart, both callers skip them alike)
RECURSIVE QuotedMatches(_, _)
QuotedMatches(s, i) ==
    IF i > Len(s) THEN <<>>
    ELSE IF IsQuote(s[i]) THEN
        LET j == NextQuote(s, i + 1)
        IN  IF j > i + 1 THEN <<SubSeq(s, i, j)>> \o QuotedMatches(s, j + 1)
            ELSE QuotedMatches(s, i + 1)
    ELSE QuotedMatches(s, i + 1)

\* match.replace(/["']/g, '')
RemoveQuotes(m) == SelectSeq(m, LAMBDA c : ~IsQuote(c))

\* f applied to every element of a sequence
MapSeq(f(_), sq) == [k \in 1..Len(sq) |-> f(sq[k])]


(***************************************************************************)
(* The vault: markdown files, their cached embeddings and metadata         *)
(***************************************************************************)

MdPath(c) == <<c, ".", "m", "d">>

\* app.vault.getMarkdownFiles(), in the order the vault returns them
Files == <<MdPath("a"), MdPath("b"), MdPath("c")>>

\* files of the vault that are not markdown files
Attachments == {<<"p", ".", "p", "n", "g">>}

\* file.basename
Basename(path) == SubSeq(path, 1, Len(path) - 3)

\* metadataCache.getFirstLinkpathDest(linkpath, sourcePath): the file a link text
\* resolves to, undefined when no file of the vault matches
LinkDest(linkpath) ==
    IF \E i \in 1..Len(Files) : Files[i] = MdPath(linkpath[1]) /\ Len(linkpath) = 1
    THEN Some(MdPath(linkpath[1]))
    ELSE IF linkpath \in Attachments THEN Some(linkpath)
    ELSE Undefined

\* plugin.settings that loadGraphData reads and the controls do not change, in thousandths
DefaultLinkThickness == 2000
MinLinkThickness == 500
MaxLinkThickness == 8000

\* --- the inputs the model draws from ---
E1 == <<1, 0>>
E2 == <<3, 4>>
E3 == <<1, 0, 0>>
EmbeddingOptions == {Undefined, Some(E1), Some(E2), Some(E3)}

\* cache.links: link texts to b, to a file that does not exist, to a; and to an
\* attachment and twice to c
LinksOptions ==
    {Undefined, Some(<< <<"b">>, <<"z">>, <<"a">> >>),
     Some(<< <<"p", ".", "p", "n", "g">>, <<"c">>, <<"c">> >>)}

\* cache.tags (tag.tag carries the leading '#')
TagsOptions ==
    {Undefined, Some(<< <<"#", "x">> >>), Some(<< <<"#", "x">>, <<"#", "y">>, <<"#", "x">> >>)}

\* cache.frontmatter['ai-tags']
AiTagsOptions ==
    { JsUndefined,
      JsArr(<<JsStr(<<"x">>)>>),
      JsArr(<<JsStr(<<"#", "x">>)>>),
      JsArr(<<JsStr(<<"y">>), JsNum(7)>>),
      \* ["x", "y"]
      JsStr(<<"[", "\"", "x", "\"", ",", " ", "\"", "y", "\"", "]">>),
      \* [7]
      JsStr(<<"[", "7", "]">>),
      \* "x"
      JsStr(<<"\"", "x", "\"">>),
      \* not json [unterminated
      JsStr(<<"n", "o", "t", " ", "j", "s", "o", "n", " ", "[", "u", "n", "t", "e", "r",
              "m", "i", "n", "a", "t", "e", "d">>),
      \* ['x', "#y"
      JsStr(<<"[", "'", "x", "'", ",", " ", "\"", "#", "y", "\"">>) }

Thresholds == {600, 800}

FileRecord(e, l, t, a) == [embedding |-> e, links |-> l, tags |-> t, aiTags |-> a]

\* vaults that vary the embeddings of every file and the links of two files
LinkVaults ==
    { << FileRecord(e1, l1, Some(<< <<"#", "x">> >>), JsArr(<<JsStr(<<"y">>)>>)),
         FileRecord(e2, l2, Undefined, JsUndefined),
         FileRecord(e3, Undefined, Undefined, JsUndefined) >> :
      e1 \in EmbeddingOptions, l1 \in LinksOptions,
      e2 \in EmbeddingOptions, l2 \in LinksOptions,
      e3 \in EmbeddingOptions }

\* vaults that vary the tags and the ai-tags of two files
TagVaults ==
    { << FileRecord(Some(E1), Some(<< <<"b">>, <<"z">>, <<"a">> >>), t1, a1),
         FileRecord(Some(E2), Undefined, t2, a2),
         FileRecord(Undefined, Undefined, Undefined, JsUndefined) >> :
      t1 \in TagsOptions, a1 \in AiTagsOptions,
      t2 \in TagsOptions, a2 \in AiTagsOptions }

(***************************************************************************)
(* BetterGraphView.loadGraphData and the link builders                     *)
(***************************************************************************)

\* the value of an optional sequence field, empty when the field is undefined
OrEmpty(opt) == IF opt = Undefined THEN <<>> ELSE opt[1]

RECURSIVE Flatten(_)
Flatten(sqs) == IF sqs = <<>> THEN <<>> ELSE Head(sqs) \o Flatten(Tail(sqs))

\* a Set's iteration order: first occurrences, in insertion order
RECURSIVE InsertionOrder(_, _)
InsertionOrder(sq, seen) ==
    IF sq = <<>> THEN <<>>
    ELSE IF Head(sq) \in seen THEN InsertionOrder(Tail(sq), seen)
    ELSE <<Head(sq)>> \o InsertionOrder(Tail(sq), seen \cup {Head(sq)})

Occurrences(sq, x) == Cardinality({k \in 1..Len(sq) : sq[k] = x})

\* a truthy JavaScript value
JsTruthy(v) ==
    IF v.t = "undefined" THEN FALSE
    ELSE IF v.t = "string" THEN v.s # <<>>
    ELSE IF v.t = "number" THEN v.n # 0
    ELSE TRUE

\* loadGraphData: the tags one file's ai-tags field adds to allTags, '#' prepended
AiTagMentions(aiTags) ==
    IF aiTags.t = "array" THEN MapSeq(LAMBDA e : WithHash(JsToString(e)), aiTags.a)
    ELSE IF aiTags.t = "string" THEN
        LET parsed == JsonParse(aiTags.s)
        IN  IF parsed.ok
            THEN IF parsed.val.t = "array"
                 THEN MapSeq(LAMBDA e : WithHash(JsToString(e)), parsed.val.a)
                 ELSE <<>>
            ELSE MapSeq(LAMBDA m : WithHash(RemoveQuotes(m)), QuotedMatches(aiTags.s, 1))
    ELSE <<>>

\* loadGraphData: every allTags.add / tagConnectionCount increment of one file, in order
TagMentions(f) == OrEmpty(f.tags) \o AiTagMentions(f.aiTags)

AllTagMentions(vlt) == Flatten(MapSeq(TagMentions, vlt))

\* loadGraphData: the file nodes, nodeMap in insertion order
FileNodes(vlt) ==
    [i \in 1..Len(Files) |->
        [id |-> Files[i], name |-> Basename(Files[i]), path |-> Files[i], type |-> "file",
         embedding |-> vlt[i].embedding, connectionCount |-> Undefined]]

\* tag nodes built from every mention instead of from the set allTags
TagNodesPerMention(vlt) ==
    LET mentions == AllTagMentions(vlt)
    IN  [k \in 1..Len(mentions) |->
            [id |-> mentions[k], name |-> mentions[k], path |-> mentions[k], type |-> "tag",
             embedding |-> Undefined,
             connectionCount |-> Some(Occurrences(mentions, mentions[k]))]]

\* loadGraphData: the tag nodes, tagNodes in insertion order
TagNodes(vlt) ==
    LET mentions == AllTagMentions(vlt)
        allTags == InsertionOrder(mentions, {})
    IN  [k \in 1..Len(allTags) |->
            [id |-> allTags[k], name |-> allTags[k], path |-> allTags[k], type |-> "tag",
             embedding |-> Undefined,
             connectionCount |-> Some(Occurrences(mentions, allTags[k]))]]

\* the integer square root; the embeddings of the model have integer magnitudes
ISqrt(n) == CHOOSE r \in 0..n : r * r = n

RECURSIVE SumProducts(_, _)
SumProducts(v1, v2) ==
    IF v1 = <<>> THEN 0 ELSE Head(v1) * Head(v2) + SumProducts(Tail(v1), Tail(v2))

\* EmbeddingService.calculateCosineSimilarity throws for vectors of unequal length
CosineThrows(vec1, vec2) == Len(vec1) # Len(vec2)

\* EmbeddingService.calculateCosineSimilarity for vectors of equal length, in thousandths
CalculateCosineSimilarity(vec1, vec2) ==
    LET dotProduct == SumProducts(vec1, vec2)
        magnitude1 == ISqrt(SumProducts(vec1, vec1))
        magnitude2 == ISqrt(SumProducts(vec2, vec2))
    IN  IF magnitude1 = 0 \/ magnitude2 = 0 THEN 0
        ELSE (dotProduct * 1000) \div (magnitude1 * magnitude2)

\* a number that may be NaN
Number(v) == [nan |-> FALSE, v |-> v]
NaN == [nan |-> TRUE, v |-> 0]

\* the similarity scaled by 1 instead of by 1 - threshold
ThicknessUnnormalized(similarity, threshold, min, max) ==
    Number(min + (((similarity - threshold) * (max - min)) \div 1000))

\* the body of calculateThicknessFromSimilarity on the settings it reads.  It is
\* called with threshold <= similarity <= 1 only, so that a divisor of 0 means
\* 0/0, which is NaN
ThicknessFromSimilarity(similarity, threshold, min, max) ==
    IF 1000 - threshold = 0
    THEN NaN
    ELSE Number(min + (((similarity - threshold) * (max - min)) \div (1000 - threshold)))

\* BetterGraphView.calculateThicknessFromSimilarity
CalculateThicknessFromSimilarity(similarity, threshold) ==
    ThicknessFromSimilarity(similarity, threshold, MinLinkThickness, MaxLinkThickness)

SimilaritySeparator == <<"<", "-", ">">>
ReferenceSeparator == <<"-", ">">>
TagSeparator == <<"-", "t", "a", "g", "-">>
AiTagSeparator == <<"-", "a", "i", "-", "t", "a", "g", "-">>

SimilarityLink(a, b, similarity, threshold) ==
    [source |-> a, target |-> b, id |-> a \o SimilaritySeparator \o b, type |-> Undefined,
     similarity |-> Some(similarity),
     thickness |-> Some(CalculateThicknessFromSimilarity(similarity, threshold))]

\* a reference link built from target to source
ReferenceLinkReversed(a, b) ==
    [source |-> b, target |-> a, id |-> b \o ReferenceSeparator \o a, type |-> Undefined,
     similarity |-> Undefined, thickness |-> Some(Number(DefaultLinkThickness))]

ReferenceLink(a, b) ==
    [source |-> a, target |-> b, id |-> a \o ReferenceSeparator \o b, type |-> Undefined,
     similarity |-> Undefined, thickness |-> Some(Number(DefaultLinkThickness))]

TagLink(a, tag, separator) ==
    [source |-> a, target |-> tag, id |-> a \o separator \o tag, type |-> Some("tag-link"),
     similarity |-> Undefined, thickness |-> Undefined]

\* the result of a link builder: the links it pushed, and whether it threw
Built(ls) == [links |-> ls, threw |-> FALSE]
Thrown(ls) == [links |-> ls, threw |-> TRUE]

\* BetterGraphView.createEmbeddingBasedLinks: the double loop from the pair (i, j) on
RECURSIVE EmbeddingLoop(_, _, _, _, _)
EmbeddingLoop(nodesArray, threshold, i, j, acc) ==
    IF i > Len(nodesArray) THEN Built(acc)
    ELSE IF j > Len(nodesArray) THEN EmbeddingLoop(nodesArray, threshold, i + 1, i + 2, acc)
    ELSE LET nodeA == nodesArray[i]
             nodeB == nodesArray[j]
         IN  IF nodeA.embedding # Undefined /\ nodeB.embedding # Undefined
             THEN IF CosineThrows(nodeA.embedding[1], nodeB.embedding[1])
                  THEN Thrown(acc)
                  ELSE LET similarity ==
                               CalculateCosineSimilarity(nodeA.embedding[1], nodeB.embedding[1])
                       IN  EmbeddingLoop(nodesArray, threshold, i, j + 1,
                               IF similarity >= threshold
                               THEN Append(acc, SimilarityLink(nodeA.id, nodeB.id,
                                                               similarity, threshold))
                               ELSE acc)
             ELSE EmbeddingLoop(nodesArray, threshold, i, j + 1, acc)

CreateEmbeddingBasedLinks(nodesArray, threshold) ==
    EmbeddingLoop(nodesArray, threshold, 1, 2, <<>>)

\* createTraditionalLinks without the nodeMap.has(targetFile.path) test
ReferenceResolvesAnyFile(linkpath, nodeIds) ==
    LinkDest(linkpath) # Undefined

\* createTraditionalLinks: whether a reference yields a link
ReferenceResolves(linkpath, nodeIds) ==
    LinkDest(linkpath) # Undefined /\ LinkDest(linkpath)[1] \in nodeIds

\* BetterGraphView.createTraditionalLinks: the links of one file
TraditionalLinksOf(path, f, nodeIds) ==
    LET refs == OrEmpty(f.links)
        kept == SelectSeq(refs, LAMBDA r : ReferenceResolves(r, nodeIds))
    IN  MapSeq(LAMBDA r : ReferenceLink(path, LinkDest(r)[1]), kept)

\* BetterGraphView.createTraditionalLinks
CreateTraditionalLinks(vlt, nodeIds) ==
    Flatten([i \in 1..Len(Files) |-> TraditionalLinksOf(Files[i], vlt[i], nodeIds)])

\* createTagLinks: tagList, the entries of the ai-tags field as JavaScript values
AiTagList(aiTags) ==
    IF aiTags.t = "array" THEN aiTags.a
    ELSE IF aiTags.t = "string" THEN
        LET parsed == JsonParse(aiTags.s)
        IN  IF parsed.ok
            THEN IF parsed.val.t = "array" THEN parsed.val.a ELSE <<>>
            ELSE MapSeq(LAMBDA m : JsStr(RemoveQuotes(m)), QuotedMatches(aiTags.s, 1))
    ELSE <<>>

\* createTagLinks: the tag id looked up for an entry of tagList
LookupTag(tag) == IF StartsWithHash(tag) THEN tag ELSE WithHash(tag)

\* createTagLinks: tagList.forEach; tag.startsWith throws a TypeError for an entry
\* that is not a string
RECURSIVE AiTagLinksLoop(_, _, _, _)
AiTagLinksLoop(path, tagList, tagIds, acc) ==
    IF tagList = <<>> THEN Built(acc)
    ELSE LET tag == Head(tagList)
         IN  IF tag.t # "string" THEN Thrown(acc)
             ELSE AiTagLinksLoop(path, Tail(tagList), tagIds,
                      IF LookupTag(tag.s) \in tagIds
                      THEN Append(acc, TagLink(path, LookupTag(tag.s), AiTagSeparator))
                      ELSE acc)

\* createTagLinks: the body of files.forEach for one file
TagLinksOf(path, f, tagIds) ==
    LET regular == MapSeq(LAMBDA t : TagLink(path, t, TagSeparator),
                          SelectSeq(OrEmpty(f.tags), LAMBDA t : t \in tagIds))
    IN  IF JsTruthy(f.aiTags)
        THEN AiTagLinksLoop(path, AiTagList(f.aiTags), tagIds, regular)
        ELSE Built(regular)

\* BetterGraphView.createTagLinks: files.forEach from file i on
RECURSIVE TagLinksLoop(_, _, _, _)
TagLinksLoop(vlt, tagIds, i, acc) ==
    IF i > Len(Files) THEN Built(acc)
    ELSE LET r == TagLinksOf(Files[i], vlt[i], tagIds)
         IN  IF r.threw THEN Thrown(acc \o r.links)
             ELSE TagLinksLoop(vlt, tagIds, i + 1, acc \o r.links)

CreateTagLinks(vlt, tagIds) == TagLinksLoop(vlt, tagIds, 1, <<>>)

Ids(sq) == {sq[k].id : k \in 1..Len(sq)}

\* loadGraphData: this.nodes.some(n => n.embedding)
SomeEmbedding(ns) == \E k \in 1..Len(ns) : ns[k].embedding # Undefined

\* the strategy chosen by the presence of embeddings alone
EmbeddingStrategyIgnoringSetting(use, ns) == SomeEmbedding(ns)

\* loadGraphData: which file-to-file strategy runs
EmbeddingStrategy(use, ns) == use /\ SomeEmbedding(ns)

\* loadGraphData: the file-to-file links
FileLinks(vlt, use, threshold, fileNodes, allNodes) ==
    IF EmbeddingStrategy(use, allNodes)
    THEN CreateEmbeddingBasedLinks(fileNodes, threshold)
    ELSE Built(CreateTraditionalLinks(vlt, Ids(fileNodes)))

\* loadGraphData without the reset of this.links
KeepLinks(old) == old

\* loadGraphData: this.links = []
ResetLinks(old) == <<>>

\* the settings a run of loadGraphData reads
CurrentSettings ==
    [useEmbeddings |-> useEmbeddings, similarityThreshold |-> similarityThreshold,
     showTags |-> showTags]

\* the embedding that generateEmbeddingsForAllNotes stores for a file
GeneratedEmbedding == E1

\* what getEmbeddingLocally and the metadata cache return: the vault, with the
\* embeddings stored since
CachedVault ==
    [i \in 1..Len(vault) |->
        IF i \in stored THEN [vault[i] EXCEPT !.embedding = Some(GeneratedEmbedding)]
        ELSE vault[i]]

\* BetterGraphView.loadGraphData, from the first statement to its return or throw, run
\* with the given settings.  renderer.isInitialized is not a member of GraphRenderer,
\* so the final renderer.updateData is not reached.
LoadGraphDataWith(use, threshold) ==
    LET fileNodes == FileNodes(CachedVault)
        tagNodes == IF showTags THEN TagNodes(CachedVault) ELSE <<>>
        allNodes == fileNodes \o tagNodes
        fileLinks == FileLinks(CachedVault, use, threshold, fileNodes, allNodes)
        tagLinks == IF showTags /\ ~fileLinks.threw
                    THEN CreateTagLinks(CachedVault, Ids(tagNodes))
                    ELSE Built(<<>>)
    IN  /\ nodes' = allNodes
        /\ links' = ResetLinks(links) \o fileLinks.links \o tagLinks.links
        /\ loadStatus' = IF fileLinks.threw \/ tagLinks.threw THEN "threw" ELSE "done"
        /\ lastLoad' = <<[useEmbeddings |-> use, similarityThreshold |-> threshold,
                          showTags |-> showTags]>>

\* BetterGraphView.loadGraphData
RunLoadGraphData ==
    /\ LoadGraphDataWith(useEmbeddings, similarityThreshold)
    /\ UNCHANGED <<vault, useEmbeddings, similarityThreshold, showTags>>
    /\ UNCHANGED <<rvars, xvars>>

\* the 'Use Semantic Similarity' toggle
SetUseEmbeddings(value) ==
    /\ useEmbeddings # value
    /\ useEmbeddings' = value
    /\ UNCHANGED <<vault, similarityThreshold, showTags, nodes, links, loadStatus, lastLoad, firstRun>>
    /\ UNCHANGED <<rvars, xvars>>

\* the 'Similarity Threshold' slider
SetSimilarityThreshold(value) ==
    /\ similarityThreshold # value
    /\ similarityThreshold' = value
    /\ UNCHANGED <<vault, useEmbeddings, showTags, nodes, links, loadStatus, lastLoad, firstRun>>
    /\ UNCHANGED <<rvars, xvars>>

\* view.filters.showTags is switched
SetShowTags(value) ==
    /\ showTags # value
    /\ showTags' = value
    /\ UNCHANGED <<vault, useEmbeddings, similarityThreshold, nodes, links, loadStatus, lastLoad, firstRun>>
    /\ UNCHANGED <<rvars, xvars>>

\* history: remember the first completed run, and note a later completed run with
\* the same settings
RecordRun ==
    firstRun' =
        IF loadStatus' # "done" THEN firstRun
        ELSE IF firstRun = <<>>
        THEN <<[settings |-> CurrentSettings, nodeIds |-> Ids(nodes'),
                linkIds |-> Ids(links'), rerun |-> FALSE]>>
        ELSE IF firstRun[1].settings = CurrentSettings
        THEN <<[firstRun[1] EXCEPT !.rerun = TRUE]>>
        ELSE firstRun

\* vaults for the runs that are repeated
RebuildVaults ==
    { << FileRecord(e1, Some(<< <<"b">>, <<"z">>, <<"a">> >>), Some(<< <<"#", "x">> >>),
                    JsArr(<<JsStr(<<"y">>)>>)),
         FileRecord(e2, Undefined, Undefined, a2),
         FileRecord(Some(E2), Undefined, Undefined, JsUndefined) >> :
      e1 \in {Undefined, Some(E1)}, e2 \in {Undefined, Some(E1), Some(E2)},
      a2 \in {JsUndefined, JsArr(<<JsStr(<<"#", "x">>)>>)} }

\* loadGraphData
LoadGraphData == RunLoadGraphData /\ UNCHANGED firstRun

\* loadGraphData, with the history of the first run kept
LoadGraphDataRecorded == RunLoadGraphData /\ RecordRun

(***************************************************************************)
(* The plugin: generateEmbeddingsForAllNotes                               *)
(***************************************************************************)

\* Bound of the model
MaxRuns == 2          \* calls of generateEmbeddingsForAllNotes

\* BetterGraphPlugin wraps the body of the loop in try/catch and stores metadata
\* after the embedding; CombinedPlugin has only the try/catch around the loop
PluginClasses == {"BetterGraphPlugin", "CombinedPlugin"}
CatchesPerDocument == plugin = "BetterGraphPlugin"
StoresMetadata == plugin = "BetterGraphPlugin"

\* what starts a run: the command, the button of the settings tab, the button of
\* the graph controls
PluginTriggers == {"command", "settings"}
ControlsTrigger == "controls"

\* a call that has just been made: it awaits vault.read of files[0]
NewRun(trigger) == [trigger |-> trigger, i |-> 1, pc |-> "read", failedAt |-> 0]

\* the call has returned, after the loop or through the catch around the loop
Finished(run) == run.pc \in {"done", "aborted"}

\* the two buttons are disabled while the run they started is awaited; the command
\* is never disabled
ButtonDisabled(trigger) ==
    /\ trigger # "command"
    /\ \E r \in 1..Len(runs) : runs[r].trigger = trigger /\ ~Finished(runs[r])

\* an awaited promise of the loop body rejects
Fail(run) ==
    [run EXCEPT !.pc = IF CatchesPerDocument THEN "delay" ELSE "aborted",
                !.failedAt = IF @ = 0 THEN run.i ELSE @]

\* a command callback or a button handler calls generateEmbeddingsForAllNotes
StartGeneration(trigger) ==
    /\ openaiApiKey
    /\ ~ButtonDisabled(trigger)
    /\ Len(runs) < MaxRuns
    /\ runs' = Append(runs, NewRun(trigger))
    /\ UNCHANGED <<plugin, openaiApiKey, stored, succeeded, pacing, unpaced>>
    /\ UNCHANGED <<rvars, gvars, wvars, tvars, yvars>>

ReadOutcomes == {"text", "blank", "error"}

\* vault.read settles: with text getEmbedding is called, a blank document is skipped
GenRead(r, outcome) ==
    /\ r \in 1..Len(runs)
    /\ runs[r].pc = "read"
    /\ runs' = [runs EXCEPT ![r] =
                    IF outcome = "text" THEN [@ EXCEPT !.pc = "embed"]
                    ELSE IF outcome = "blank" THEN [@ EXCEPT !.pc = "delay"]
                    ELSE Fail(@)]
    /\ pacing' = IF outcome = "text" THEN "request" ELSE pacing
    /\ unpaced' = (unpaced \/ (outcome = "text" /\ pacing = "request"))
    /\ UNCHANGED <<plugin, openaiApiKey, stored, succeeded>>
    /\ UNCHANGED <<rvars, gvars, wvars, tvars, yvars>>

\* embeddingService.getEmbedding settles: storeEmbeddingLocally is called
GenEmbed(r, ok) ==
    /\ r \in 1..Len(runs)
    /\ runs[r].pc = "embed"
    /\ runs' = [runs EXCEPT ![r] = IF ok THEN [@ EXCEPT !.pc = "store"] ELSE Fail(@)]
    /\ UNCHANGED <<plugin, openaiApiKey, stored, succeeded, pacing, unpaced>>
    /\ UNCHANGED <<rvars, gvars, wvars, tvars, yvars>>

\* storeEmbeddingLocally settles
GenStore(r, ok) ==
    /\ r \in 1..Len(runs)
    /\ runs[r].pc = "store"
    /\ runs' = [runs EXCEPT ![r] =
                    IF ok THEN [@ EXCEPT !.pc = IF StoresMetadata THEN "meta" ELSE "delay"]
                    ELSE Fail(@)]
    /\ stored' = IF ok THEN stored \cup {runs[r].i} ELSE stored
    /\ succeeded' = IF ok /\ ~StoresMetadata THEN succeeded \cup {runs[r].i} ELSE succeeded
    /\ UNCHANGED <<plugin, openaiApiKey, pacing, unpaced>>
    /\ UNCHANGED <<rvars, gvars, wvars, tvars, yvars>>

\* storeEmbeddingMetadata settles: successCount++
GenMeta(r, ok) ==
    /\ r \in 1..Len(runs)
    /\ runs[r].pc = "meta"
    /\ runs' = [runs EXCEPT ![r] = IF ok THEN [@ EXCEPT !.pc = "delay"] ELSE Fail(@)]
    /\ succeeded' = IF ok THEN succeeded \cup {runs[r].i} ELSE succeeded
    /\ UNCHANGED <<plugin, openaiApiKey, stored, pacing, unpaced>>
    /\ UNCHANGED <<rvars, gvars, wvars, tvars, yvars>>

\* the 200 ms timer fires: the loop goes to the next file, or ends
GenDelay(r) ==
    /\ r \in 1..Len(runs)
    /\ runs[r].pc = "delay"
    /\ runs' = [runs EXCEPT ![r] =
                    IF @.i < Len(Files) THEN [@ EXCEPT !.i = @ + 1, !.pc = "read"]
                    ELSE [@ EXCEPT !.pc = "done"]]
    /\ pacing' = "delay"
    /\ UNCHANGED <<plugin, openaiApiKey, stored, succeeded, unpaced>>
    /\ UNCHANGED <<rvars, gvars, wvars, tvars, yvars>>

EInit ==
    /\ plugin \in PluginClasses
    /\ openaiApiKey \in BOOLEAN
    /\ runs = <<>>
    /\ stored = {}
    /\ succeeded = {}
    /\ pacing = "none"
    /\ unpaced = FALSE

EIdle ==
    /\ plugin = "CombinedPlugin"
    /\ openaiApiKey = FALSE
    /\ runs = <<>>
    /\ stored = {}
    /\ succeeded = {}
    /\ pacing = "none"
    /\ unpaced = FALSE


(***************************************************************************)
(* The view's life cycle: onOpen, the controls, refresh, onClose           *)
(***************************************************************************)

\* the two BetterGraphView classes: src/GraphView.ts guards refresh() with
\* renderer.isInitialized, src/unnamed/part_001 does not
ViewSources == {"GraphView.ts", "part_001"}
RefreshIsGuarded == viewSource = "GraphView.ts"

\* renderer.isInitialized: GraphRenderer has no such member, the value is undefined
IsInitialized == FALSE

\* what the renderer is given: this.nodes and this.links of the view
Snapshot(ns, ls) == [nodeIds |-> Ids(ns), linkIds |-> Ids(ls)]

\* a vault without tags, on which the loadGraphData of both classes does the same
ViewVault ==
    << FileRecord(Undefined, Some(<< <<"b">>, <<"z">>, <<"a">> >>), Undefined, JsUndefined),
       FileRecord(Some(E2), Undefined, Undefined, JsUndefined),
       FileRecord(Some(E1), Undefined, Undefined, JsUndefined) >>

\* Bound of the model
MaxPendingLoads == 1  \* calls of loadGraphData that have not settled yet

\* the controls exist from onOpen on and can be used until the view is closed
ControlsUsable == phase # "created" /\ ~destroyed

\* a call of loadGraphData that has not settled: who awaits it ("open" for onOpen,
\* "refresh" for refresh(), "generated" for the refresh() after a generation), and
\* whether the renderer was initialized and attached when the call was made
PendingLoad(kind) == [kind |-> kind, ready |-> svg = "attached"]

\* BetterGraphView.refresh() up to its await; afterGeneration tells the call made by
\* the 'Generate Embeddings' handler from the others
CallRefresh(afterGeneration) ==
    IF RefreshIsGuarded /\ ~IsInitialized
    THEN /\ lastRefresh' = <<[ready |-> svg = "attached", outcome |-> "skipped"]>>
         /\ UNCHANGED pending
    ELSE /\ Len(pending) < MaxPendingLoads
         /\ pending' = Append(pending,
                               PendingLoad(IF afterGeneration THEN "generated" ELSE "refresh"))
         /\ UNCHANGED lastRefresh

\* onOpen up to its await: the controls and the renderer are constructed,
\* loadGraphData is called
OnOpenBegin ==
    /\ phase = "created"
    /\ phase' = "opening"
    /\ pending' = Append(pending, PendingLoad("open"))
    /\ UNCHANGED <<viewSource, rendererData, lastRefresh, staleRebuild>>
    /\ UNCHANGED <<rvars, gvars, evars, tvars, yvars>>

\* a call of loadGraphData settles and its caller goes on: onOpen with
\* renderer.initialize, refresh() with renderer.updateData
LoadSettled ==
    /\ pending # <<>>
    /\ pending' = Tail(pending)
    /\ LoadGraphDataWith(useEmbeddings, similarityThreshold)
    /\ IF Head(pending).kind = "open"
       THEN /\ IF loadStatus' = "threw"
               THEN /\ phase' = "failed"
                    /\ UNCHANGED <<svg, sims, rendererData>>
               ELSE /\ phase' = "open"
                    /\ svg' = "attached"
                    /\ sims' = DropDead(sims \o <<NewSimulation>>)
                    /\ rendererData' = <<Snapshot(nodes', links')>>
            /\ UNCHANGED <<lastRefresh, staleRebuild>>
       ELSE /\ IF loadStatus' = "threw" \/ svg = "none"
               THEN /\ lastRefresh' = <<[ready |-> Head(pending).ready, outcome |-> "threw"]>>
                    /\ UNCHANGED <<sims, rendererData, staleRebuild>>
               ELSE /\ Len(DropDead(sims \o <<NewSimulation>>)) <= MaxSims
                    /\ sims' = DropDead(sims \o <<NewSimulation>>)
                    /\ rendererData' = <<Snapshot(nodes', links')>>
                    /\ lastRefresh' =
                           <<[ready |-> Head(pending).ready, outcome |-> "rebuilt"]>>
                    /\ staleRebuild' =
                           (staleRebuild \/ (Head(pending).kind = "generated" /\ destroyed))
            /\ UNCHANGED <<phase, svg>>
    /\ UNCHANGED <<isAnimating, dragging, destroyed, tickedAfterDestroy>>
    /\ UNCHANGED <<vault, useEmbeddings, similarityThreshold, showTags, firstRun>>
    /\ UNCHANGED viewSource
    /\ UNCHANGED <<evars, tvars, yvars>>

\* BetterGraphView.onClose: renderer.destroy()
OnClose ==
    /\ phase # "created"
    /\ Destroy

\* the 'Use Semantic Similarity' toggle of the controls: the setting, then refresh()
ControlsUseEmbeddings(value) ==
    /\ ControlsUsable
    /\ useEmbeddings # value
    /\ useEmbeddings' = value
    /\ CallRefresh(FALSE)
    /\ UNCHANGED <<vault, similarityThreshold, showTags, nodes, links, loadStatus, lastLoad,
                   firstRun>>
    /\ UNCHANGED <<viewSource, phase, rendererData, staleRebuild>>
    /\ UNCHANGED <<rvars, evars, tvars, yvars>>

\* the 'Similarity Threshold' slider of the controls: the setting, then refresh() when
\* useEmbeddings is set
ControlsSimilarityThreshold(value) ==
    /\ ControlsUsable
    /\ similarityThreshold # value
    /\ similarityThreshold' = value
    /\ IF useEmbeddings THEN CallRefresh(FALSE) ELSE UNCHANGED <<pending, lastRefresh>>
    /\ UNCHANGED <<vault, useEmbeddings, showTags, nodes, links, loadStatus, lastLoad, firstRun>>
    /\ UNCHANGED <<viewSource, phase, rendererData, staleRebuild>>
    /\ UNCHANGED <<rvars, evars, tvars, yvars>>

\* the 'Reset All Customizations' button of the controls: refresh()
ControlsReset ==
    /\ ControlsUsable
    /\ CallRefresh(FALSE)
    /\ UNCHANGED <<viewSource, phase, rendererData, staleRebuild>>
    /\ UNCHANGED <<rvars, gvars, evars, tvars, yvars>>

\* the 'Generate Embeddings' button of the controls is clicked
ControlsGenerate ==
    /\ ControlsUsable
    /\ StartGeneration(ControlsTrigger)

\* the sequence sq without its entry r
RemoveAt(sq, r) == SubSeq(sq, 1, r - 1) \o SubSeq(sq, r + 1, Len(sq))

\* the 'Generate Embeddings' handler after its await: the button is enabled again
\* and refresh() is called, whatever has happened to the view since the click
ControlsGenerateReturned(r) ==
    /\ r \in 1..Len(runs)
    /\ runs[r].trigger = ControlsTrigger
    /\ Finished(runs[r])
    /\ runs' = RemoveAt(runs, r)
    /\ CallRefresh(TRUE)
    /\ UNCHANGED <<viewSource, phase, rendererData, staleRebuild>>
    /\ UNCHANGED <<plugin, openaiApiKey, stored, succeeded, pacing, unpaced>>
    /\ UNCHANGED <<rvars, gvars, tvars, yvars>>

WInit ==
    /\ viewSource \in ViewSources
    /\ phase = "created"
    /\ pending = <<>>
    /\ rendererData = <<>>
    /\ lastRefresh = <<>>
    /\ staleRebuild = FALSE

WIdle ==
    /\ viewSource = "GraphView.ts"
    /\ phase = "created"
    /\ pending = <<>>
    /\ rendererData = <<>>
    /\ lastRefresh = <<>>
    /\ staleRebuild = FALSE

\* the settings and the vault the view is opened with
GInitView ==
    /\ vault = ViewVault
    /\ useEmbeddings \in BOOLEAN
    /\ similarityThreshold \in Thresholds
    /\ showTags = FALSE
    /\ nodes = <<>>
    /\ links = <<>>
    /\ loadStatus = "none"
    /\ lastLoad = <<>>
    /\ firstRun = <<>>

\* the plugin the view is opened by
EInitView ==
    /\ plugin = "CombinedPlugin"
    /\ openaiApiKey = TRUE
    /\ runs = <<>>
    /\ stored = {}
    /\ succeeded = {}
    /\ pacing = "none"
    /\ unpaced = FALSE

(***************************************************************************)
(* calculateThicknessFromSimilarity on its own                             *)
(***************************************************************************)

\* the arguments and settings the function is applied to, in thousandths
ThicknessSimilarities == {0, 300, 600, 900, 1000}
ThicknessThresholds == {0, 300, 600, 900, 1000}
ThicknessMins == {100, 500, 5000}
ThicknessMaxs == {2000, 8000, 15000}

\* calculateThicknessFromSimilarity(similarity) is called
ComputeThickness ==
    /\ tResult = <<>>
    /\ tResult' = <<ThicknessFromSimilarity(tSimilarity, tThreshold, tMin, tMax)>>
    /\ UNCHANGED <<tSimilarity, tThreshold, tMin, tMax>>
    /\ UNCHANGED <<rvars, gvars, evars, wvars, yvars>>

\* createEmbeddingBasedLinks calls the function when similarity >= threshold
TInit ==
    /\ tSimilarity \in ThicknessSimilarities
    /\ tThreshold \in ThicknessThresholds
    /\ tSimilarity >= tThreshold
    /\ tMin \in ThicknessMins
    /\ tMax \in ThicknessMaxs
    /\ tResult = <<>>

TIdle ==
    /\ tSimilarity = 0
    /\ tThreshold = 0
    /\ tMin = 0
    /\ tMax = 0
    /\ tResult = <<>>

(***************************************************************************)
(* The force settings: the sliders of the controls and the d3 simulation   *)
(***************************************************************************)

ControlsSources == {"graph/GraphControls.ts", "main.ts"}
ForceNames == {"repulsionForce", "linkDistance", "centerForce"}

\* DEFAULT_SETTINGS; centerForce in thousandths
DefaultForces == [repulsionForce |-> 300, linkDistance |-> 100, centerForce |-> 300]

\* the values a slider offers: the default and one other position
SliderValues(name) ==
    CASE name = "repulsionForce" -> {300, 350}
      [] name = "linkDistance" -> {100, 110}
      [] name = "centerForce" -> {300, 400}

\* the slider handler of main.ts ends with this.view.refresh(); the one of
\* graph/GraphControls.ts ends after saveSettings()
SliderRefreshes == controlsSource = "main.ts"

\* GraphRenderer.initialize: setupSimulation builds the forces from plugin.settings
ForcesInitialize ==
    /\ simForces = <<>>
    /\ simForces' = <<forces>>
    /\ reenergized' = TRUE
    /\ UNCHANGED <<controlsSource, forces, refreshing>>
    /\ UNCHANGED forcesFrame

\* the 'input' handler of a force slider: writes the setting, saves, and in main.ts
\* calls view.refresh(), which returns at once where it is guarded
ForceSlider(name, value) ==
    /\ value # forces[name]
    /\ forces' = [forces EXCEPT ![name] = value]
    /\ reenergized' = (simForces = <<>>)
    /\ IF SliderRefreshes /\ ~(RefreshIsGuarded /\ ~IsInitialized)
       THEN /\ refreshing < MaxPendingLoads
            /\ refreshing' = refreshing + 1
       ELSE UNCHANGED refreshing
    /\ UNCHANGED <<controlsSource, simForces>>
    /\ UNCHANGED forcesFrame

\* the unguarded refresh() resumes after loadGraphData: renderer.updateData runs
\* setupSimulation, which builds a new simulation from plugin.settings; before
\* initialize() updateData throws at this.g
ForceRefreshSettled ==
    /\ refreshing > 0
    /\ refreshing' = refreshing - 1
    /\ IF simForces = <<>>
       THEN UNCHANGED <<simForces, reenergized>>
       ELSE /\ simForces' = <<forces>>
            /\ reenergized' = TRUE
    /\ UNCHANGED <<controlsSource, forces>>
    /\ UNCHANGED forcesFrame

FInit ==
    /\ controlsSource \in ControlsSources
    /\ forces = DefaultForces
    /\ simForces = <<>>
    /\ reenergized = TRUE
    /\ refreshing = 0

FIdle ==
    /\ controlsSource = "main.ts"
    /\ forces = DefaultForces
    /\ simForces = <<>>
    /\ reenergized = TRUE
    /\ refreshing = 0

(***************************************************************************)
(* The nodes of the d3 simulation: drag and fx/fy                          *)
(***************************************************************************)

NodeCount == 2          \* nodes of a snapshot
MaxCoord == 2           \* positions are the points 0..MaxCoord

Points == 0..MaxCoord
NodeIndexes == 1..NodeCount
Unset == [n \in NodeIndexes |-> <<>>]

\* the subject of a gesture that started on a node of a snapshot since replaced
Detached == 0

\* setupSimulation places node i on a circle around the centre
CirclePoint(i) == (i - 1) % (MaxCoord + 1)
CircleLayout == [n \in NodeIndexes |-> CirclePoint(n)]

\* GraphRenderer.initialize: this.nodes = nodes, setupSimulation, render
NodesInitialize ==
    /\ pos = <<>>
    /\ pos' = CircleLayout
    /\ fixed' = Unset
    /\ lastPointer' = Unset
    /\ tickedSince' = [n \in NodeIndexes |-> FALSE]
    /\ UNCHANGED subject
    /\ UNCHANGED nodesFrame

\* one tick of d3-force: the forces move the nodes (forceCenter) and change their
\* velocities in a way that is left open here, then a node whose fx is set is put at
\* fx,fy and every other node at the position its velocity leads to
NodesTick ==
    /\ pos # <<>>
    /\ \E moved \in [NodeIndexes -> Points] :
          pos' = [n \in NodeIndexes |-> IF fixed[n] = <<>> THEN moved[n] ELSE fixed[n][1]]
    /\ tickedSince' = [n \in NodeIndexes |->
                          tickedSince[n] \/ (lastPointer[n] # <<>> /\ subject # <<n>>)]
    /\ UNCHANGED <<fixed, subject, lastPointer>>
    /\ UNCHANGED nodesFrame

\* drag 'end' handler as the commented-out lines would make it: d.fx = null, d.fy = null
NodeDragEndReleasing ==
    /\ subject # <<>>
    /\ subject' = <<>>
    /\ fixed' = IF subject[1] = Detached THEN fixed ELSE [fixed EXCEPT ![subject[1]] = <<>>]
    /\ UNCHANGED <<pos, lastPointer, tickedSince>>
    /\ UNCHANGED nodesFrame

\* drag 'end' handler: fx and fy are left as they are
NodeDragEnd ==
    /\ subject # <<>>
    /\ subject' = <<>>
    /\ UNCHANGED <<pos, fixed, lastPointer, tickedSince>>
    /\ UNCHANGED nodesFrame

\* drag 'start' handler on the element of node n: d.fx = d.x, d.fy = d.y
NodeDragStart(n) ==
    /\ pos # <<>>
    /\ subject = <<>>
    /\ subject' = <<n>>
    /\ fixed' = [fixed EXCEPT ![n] = <<pos[n]>>]
    /\ lastPointer' = [lastPointer EXCEPT ![n] = <<pos[n]>>]
    /\ tickedSince' = [tickedSince EXCEPT ![n] = FALSE]
    /\ UNCHANGED pos
    /\ UNCHANGED nodesFrame

\* drag 'drag' handler: d.fx = event.x, d.fy = event.y, on the node object the
\* gesture started on
NodeDrag(p) ==
    /\ subject # <<>>
    /\ IF subject[1] = Detached
       THEN UNCHANGED <<fixed, lastPointer>>
       ELSE /\ fixed' = [fixed EXCEPT ![subject[1]] = <<p>>]
            /\ lastPointer' = [lastPointer EXCEPT ![subject[1]] = <<p>>]
    /\ UNCHANGED <<pos, subject, tickedSince>>
    /\ UNCHANGED nodesFrame

NodeOperations == {"updateForces", "updateLinkForce", "resize", "toggleAnimation"}

\* updateForces, updateLinkForce, resize and toggleAnimation reach the simulation's
\* forces, alpha and timer and no field of a node
NodesUntouched(op) ==
    /\ pos # <<>>
    /\ UNCHANGED pvars
    /\ UNCHANGED nodesFrame

\* GraphRenderer.updateData with the nodes of a new loadGraphData: new node objects,
\* laid out by setupSimulation; a gesture in progress keeps the old node object
NodesUpdateData ==
    /\ pos # <<>>
    /\ pos' = CircleLayout
    /\ fixed' = Unset
    /\ lastPointer' = Unset
    /\ tickedSince' = [n \in NodeIndexes |-> FALSE]
    /\ subject' = IF subject = <<>> THEN <<>> ELSE <<Detached>>
    /\ UNCHANGED nodesFrame

PInit ==
    /\ pos = <<>>
    /\ fixed = <<>>
    /\ subject = <<>>
    /\ lastPointer = <<>>
    /\ tickedSince = <<>>

PIdle == PInit

(***************************************************************************)
(* The canvas GraphRenderer: mouse handlers, wheel, updatePhysics          *)
(* Lengths are in thousandths of a pixel, divisions truncate.              *)
(***************************************************************************)

MaxFrames == 2          \* animation frames in one behaviour
MaxSnapshots == 2       \* node arrays the renderer is given in one behaviour

CanvasWidth == 800000
NodeSize == 8000
HitMargin == 5000
RepulsionRange == 200000
ZoomMin == 100
ZoomMax == 4000

Abs(a) == IF a < 0 THEN -a ELSE a
Sign(a) == IF a < 0 THEN -1 ELSE IF a > 0 THEN 1 ELSE 0
TruncDiv(a, b) == IF a < 0 THEN -((-a) \div b) ELSE a \div b

CenterX == CanvasWidth \div 2
\* Math.min(centerX, centerY) * 0.7 for a canvas of 800 by 600
LayoutRadius == 210000

\* initializeLayout: node i of n at angle 2*pi*i/n; one node lies right of the centre,
\* two nodes lie right and left of it
LayoutX(i, n) == IF i = 1 THEN CenterX + LayoutRadius ELSE CenterX - LayoutRadius

\* the node arrays and link arrays the renderer is given; "c.md" is no node of any
CanvasSnapshots ==
    { [nodes |-> <<"a.md", "b.md">>, links |-> <<[source |-> "a.md", target |-> "b.md"]>>],
      [nodes |-> <<"a.md", "b.md">>, links |-> <<[source |-> "a.md", target |-> "c.md"],
                                                 [source |-> "a.md", target |-> "b.md"]>>],
      [nodes |-> <<"b.md">>, links |-> <<[source |-> "a.md", target |-> "b.md"],
                                         [source |-> "b.md", target |-> "b.md"]>>] }

\* e.clientX - rect.left of the mouse events
PointerPositions == {190000, 600000, 604000}

\* (e.clientX - rect.left - this.camera.x) / this.camera.zoom, camera.x being 0
ToWorld(c, z) == (c \div z) * 1000 + ((c % z) * 1000) \div z

Laid(ids) ==
    [i \in 1..Len(ids) |-> [id |-> ids[i], x |-> LayoutX(i, Len(ids)), vx |-> 0]]

\* this.nodes.find(n => n.id === id): the index of the first match, 0 for undefined
RECURSIVE FindFrom(_, _, _)
FindFrom(ns, id, i) ==
    IF i > Len(ns) THEN 0
    ELSE IF ns[i].id = id THEN i
    ELSE FindFrom(ns, id, i + 1)
Find(ns, id) == FindFrom(ns, id, 1)

\* the loop of onMouseDown: the first node of the array closer than nodeSize + 5
RECURSIVE FirstWithin(_, _, _)
FirstWithin(ns, x, i) ==
    IF i > Len(ns) THEN 0
    ELSE IF Abs(x - ns[i].x) < NodeSize + HitMargin THEN i
    ELSE FirstWithin(ns, x, i + 1)

\* centre force of updatePhysics on a node: dx * 0.0001 * centerForce
CenterPull(n) == TruncDiv((CenterX - n.x) * forces.centerForce, 10000000)

\* repulsion of updatePhysics on the pair nodeA, nodeB: the fx subtracted from nodeA.vx
\* and added to nodeB.vx; the distance is taken in tenths of a pixel
PairRepulsion(nodeA, nodeB) ==
    LET dx == nodeB.x - nodeA.x
        tenths == IF Abs(dx) < 100 THEN 1 ELSE Abs(dx) \div 100
    IN  IF dx # 0 /\ Abs(dx) < RepulsionRange
        THEN Sign(dx) * ((forces.repulsionForce * 100000) \div (tenths * tenths))
        ELSE 0

RECURSIVE RepulsionOn(_, _, _)
RepulsionOn(ns, i, j) ==
    IF j > Len(ns) THEN 0
    ELSE (IF j > i THEN -PairRepulsion(ns[i], ns[j])
          ELSE IF j < i THEN PairRepulsion(ns[j], ns[i])
          ELSE 0) + RepulsionOn(ns, i, j + 1)

\* spring force of one link: the fx added to source.vx and subtracted from target.vx
SpringForce(source, target) ==
    LET dx == target.x - source.x
    IN  Sign(dx) * TruncDiv(Abs(dx) - forces.linkDistance * 1000, 10)

\* the links loop of updatePhysics without its test "if (source && target)": reading
\* x of undefined throws
RECURSIVE SpringsUnchecked(_, _, _)
SpringsUnchecked(ns, ls, i) ==
    IF ls = <<>> THEN [vx |-> 0, threw |-> FALSE]
    ELSE LET s == Find(ns, Head(ls).source)
             t == Find(ns, Head(ls).target)
             rest == SpringsUnchecked(ns, Tail(ls), i)
         IN  IF s = 0 \/ t = 0 THEN [vx |-> 0, threw |-> TRUE]
             ELSE [vx |-> (IF i = s THEN SpringForce(ns[s], ns[t]) ELSE 0)
                          - (IF i = t THEN SpringForce(ns[s], ns[t]) ELSE 0) + rest.vx,
                   threw |-> rest.threw]

\* the links loop of updatePhysics, as far as it reaches node i: a link whose source
\* or target is not found is passed over
RECURSIVE Springs(_, _, _)
Springs(ns, ls, i) ==
    IF ls = <<>> THEN [vx |-> 0, threw |-> FALSE]
    ELSE LET s == Find(ns, Head(ls).source)
             t == Find(ns, Head(ls).target)
             rest == Springs(ns, Tail(ls), i)
         IN  IF s = 0 \/ t = 0 THEN rest
             ELSE [vx |-> (IF i = s THEN SpringForce(ns[s], ns[t]) ELSE 0)
                          - (IF i = t THEN SpringForce(ns[s], ns[t]) ELSE 0) + rest.vx,
                   threw |-> rest.threw]

\* node.vx *= 0.85
Damped(vx) == TruncDiv(vx, 20) * 17

\* updatePhysics: forces on every node, then damping and the move of every node but
\* the dragged one (dragged = its index, 0 when this.dragNode is no node of this.nodes
\* or nothing is dragged)
UpdatePhysics(ns, ls, dragged) ==
    LET pushed == [i \in 1..Len(ns) |->
                     ns[i].vx + CenterPull(ns[i]) + RepulsionOn(ns, i, 1)
                              + Springs(ns, ls, i).vx]
    IN  [threw |-> \E i \in 1..Len(ns) : Springs(ns, ls, i).threw,
         nodes |-> [i \in 1..Len(ns) |->
                      IF i = dragged
                      THEN [ns[i] EXCEPT !.vx = pushed[i]]
                      ELSE [ns[i] EXCEPT !.vx = Damped(pushed[i]),
                                         !.x = ns[i].x + TruncDiv(Damped(pushed[i]), 10)]]]

\* the index of this.dragNode in this.nodes, 0 when it is not one of them
DragIndex ==
    IF isDragging /\ dragNode # <<>> /\ dragNode[1].snapshot = snapshotNo
    THEN dragNode[1].index ELSE 0

\* renderLinks: the links drawn are those with both ends found
DrawnLinks(ns, ls) ==
    {k \in 1..Len(ls) : Find(ns, ls[k].source) # 0 /\ Find(ns, ls[k].target) # 0}

\* GraphRenderer.initialize
CanvasInitialize(s) ==
    /\ snapshotNo = 0
    /\ cNodes' = Laid(s.nodes)
    /\ cLinks' = s.links
    /\ snapshotNo' = 1
    /\ UNCHANGED <<isDragging, dragNode, dragPointer, hit, zoom, frames, crashed>>
    /\ UNCHANGED canvasFrame

\* GraphRenderer.updateData with the arrays of a new load: new node objects
CanvasUpdateData(s) ==
    /\ snapshotNo > 0
    /\ snapshotNo < MaxSnapshots
    /\ cNodes' = Laid(s.nodes)
    /\ cLinks' = s.links
    /\ snapshotNo' = snapshotNo + 1
    /\ UNCHANGED <<isDragging, dragNode, dragPointer, hit, zoom, frames, crashed>>
    /\ UNCHANGED canvasFrame

\* one animation frame: update() and render()
CanvasFrame ==
    /\ snapshotNo > 0
    /\ ~crashed
    /\ frames < MaxFrames
    /\ frames' = frames + 1
    /\ LET after == UpdatePhysics(cNodes, cLinks, DragIndex)
       IN  IF after.threw
           THEN crashed' = TRUE /\ UNCHANGED cNodes
           ELSE cNodes' = after.nodes /\ UNCHANGED crashed
    /\ UNCHANGED <<cLinks, snapshotNo, isDragging, dragNode, dragPointer, hit, zoom>>
    /\ UNCHANGED canvasFrame

\* what onMouseDown should choose from: the nodes within reach of x, the closest ones
WithinReach(ns, x) == {i \in 1..Len(ns) : Abs(x - ns[i].x) < NodeSize + HitMargin}
Closest(ns, x) ==
    {i \in WithinReach(ns, x) :
        \A j \in WithinReach(ns, x) : Abs(x - ns[i].x) <= Abs(x - ns[j].x)}

\* GraphRenderer.onMouseDown
OnMouseDown(c) ==
    LET x == ToWorld(c, zoom)
        found == FirstWithin(cNodes, x, 1)
    IN  /\ ~isDragging
        /\ hit' = <<[chosen |-> found, within |-> WithinReach(cNodes, x),
                     closest |-> Closest(cNodes, x)]>>
        /\ IF found # 0
           THEN /\ isDragging' = TRUE
                /\ dragNode' = <<[snapshot |-> snapshotNo, index |-> found]>>
           ELSE UNCHANGED <<isDragging, dragNode>>
        /\ UNCHANGED <<cNodes, cLinks, snapshotNo, dragPointer, zoom, frames, crashed>>
        /\ UNCHANGED canvasFrame

\* GraphRenderer.onMouseMove: the dragged node object is put at the pointer with no
\* velocity; it is a node of this.nodes only while the array has not been replaced
OnMouseMove(c) ==
    LET x == ToWorld(c, zoom)
    IN  /\ IF isDragging /\ dragNode # <<>>
           THEN /\ dragPointer' = <<x>>
                /\ cNodes' = IF DragIndex # 0
                             THEN [cNodes EXCEPT ![DragIndex] = [@ EXCEPT !.x = x, !.vx = 0]]
                             ELSE cNodes
           ELSE UNCHANGED <<dragPointer, cNodes>>
        /\ UNCHANGED <<cLinks, snapshotNo, isDragging, dragNode, hit, zoom, frames, crashed>>
        /\ UNCHANGED canvasFrame

\* GraphRenderer.onMouseUp
OnMouseUp ==
    /\ isDragging' = FALSE
    /\ dragNode' = <<>>
    /\ dragPointer' = <<>>
    /\ hit' = <<>>
    /\ UNCHANGED <<cNodes, cLinks, snapshotNo, zoom, frames, crashed>>
    /\ UNCHANGED canvasFrame

\* onWheel without the last line, the clamp
OnWheelUnclamped(zoomOut) ==
    /\ zoom' = IF zoomOut THEN (zoom * 9) \div 10 ELSE (zoom * 11) \div 10
    /\ UNCHANGED <<cNodes, cLinks, snapshotNo, isDragging, dragNode, dragPointer, hit,
                   frames, crashed>>
    /\ UNCHANGED canvasFrame

\* GraphRenderer.onWheel: deltaY > 0 zooms out by 0.9, otherwise in by 1.1, clamped
OnWheel(zoomOut) ==
    /\ LET scaled == IF zoomOut THEN (zoom * 9) \div 10 ELSE (zoom * 11) \div 10
       IN  zoom' = IF scaled > ZoomMax THEN ZoomMax
                   ELSE IF scaled < ZoomMin THEN ZoomMin ELSE scaled
    /\ UNCHANGED <<cNodes, cLinks, snapshotNo, isDragging, dragNode, dragPointer, hit,
                   frames, crashed>>
    /\ UNCHANGED canvasFrame

CInit ==
    /\ cNodes = <<>>
    /\ cLinks = <<>>
    /\ snapshotNo = 0
    /\ isDragging = FALSE
    /\ dragNode = <<>>
    /\ dragPointer = <<>>
    /\ hit = <<>>
    /\ zoom = 1000
    /\ frames = 0
    /\ crashed = FALSE

CIdle == CInit

(***************************************************************************)
(* The plugin's data file: load the whole object, modify it, save it back  *)
(***************************************************************************)

MaxWriters == 2         \* calls that are between their loadData and their saveData

DataPaths == {"a.md", "b.md"}
SettingsValues == {0, 1}

\* loadData() || {} of a data file that does not exist yet
EmptyData == [embeddings |-> {}, embeddingMetadata |-> {}, settings |-> 0]

\* storeEmbeddingLocally up to its saveData: data = await loadData(),
\* data.embeddings[filePath] = embedding, data.settings = this.settings
StoreLoaded(filePath) ==
    /\ Len(writers) < MaxWriters
    /\ writers' = Append(writers,
                         [op |-> "storeEmbeddingLocally", filePath |-> filePath,
                          data |-> [data EXCEPT !.embeddings = @ \cup {filePath},
                                                !.settings = settings]])
    /\ UNCHANGED <<data, settings, completed>>
    /\ UNCHANGED dataFrame

\* storeEmbeddingMetadata up to its saveData
MetadataLoaded(filePath) ==
    /\ Len(writers) < MaxWriters
    /\ writers' = Append(writers,
                         [op |-> "storeEmbeddingMetadata", filePath |-> filePath,
                          data |-> [data EXCEPT !.embeddingMetadata = @ \cup {filePath}]])
    /\ UNCHANGED <<data, settings, completed>>
    /\ UNCHANGED dataFrame

\* a control or settings-tab handler: it replaces a setting and calls saveSettings,
\* which runs up to its saveData: data = await loadData(), data.settings = this.settings
SettingsLoaded(value) ==
    /\ Len(writers) < MaxWriters
    /\ value # settings
    /\ settings' = value
    /\ writers' = Append(writers,
                         [op |-> "saveSettings", filePath |-> "",
                          data |-> [data EXCEPT !.settings = value]])
    /\ UNCHANGED <<data, completed>>
    /\ UNCHANGED dataFrame

\* await this.saveData(data) of call w resolves: the object the call loaded and
\* modified replaces the stored one
DataSaved(w) ==
    /\ w \in 1..Len(writers)
    /\ data' = writers[w].data
    /\ completed' = IF writers[w].op = "storeEmbeddingLocally"
                    THEN completed \cup {writers[w].filePath} ELSE completed
    /\ writers' = RemoveAt(writers, w)
    /\ UNCHANGED settings
    /\ UNCHANGED dataFrame

\* getEmbeddingLocally(filePath) returns an embedding, not null
GetEmbeddingLocally(filePath) == filePath \in data.embeddings

SInit ==
    /\ data = EmptyData
    /\ settings = 0
    /\ writers = <<>>
    /\ completed = {}

SIdle == SInit

(***************************************************************************)
(* The graph modal: loadGraphData between its awaits, and the frame callback *)
(***************************************************************************)

MaxModalLoads == 2      \* loadGraphData calls that are suspended at the same time

\* the vectors a generation run may store for each file; E3 comes from a model of
\* another dimension
StoredEmbeddings == << {E1, E3}, {E1}, {E2} >>

\* metadataCache: the files each file's references resolve to, a -> b and b -> c
ModalLinkDest == << <<2>>, <<3>>, <<>> >>

\* loadGraphData: the node of one file.  x and y are Math.random() and do not bear on
\* the links; they are left out.
ModalNode(i, embedding) == [id |-> Files[i], embedding |-> embedding]

ModalSimilarityLink(nodeA, nodeB, similarity) ==
    [source |-> nodeA.id, target |-> nodeB.id, similarity |-> Some(similarity)]

ModalReferenceLink(i, j) ==
    [source |-> Files[i], target |-> Files[j], similarity |-> Undefined]

\* BetterGraphModal.createEmbeddingBasedLinks: the double loop from the pair (i, j) on.
\* It contains no await, so it runs to its end or to its throw in one piece.
RECURSIVE ModalEmbeddingLoop(_, _, _, _, _)
ModalEmbeddingLoop(nodesArray, threshold, i, j, acc) ==
    IF i > Len(nodesArray) THEN Built(acc)
    ELSE IF j > Len(nodesArray)
    THEN ModalEmbeddingLoop(nodesArray, threshold, i + 1, i + 2, acc)
    ELSE LET nodeA == nodesArray[i]
             nodeB == nodesArray[j]
         IN  IF nodeA.embedding # Undefined /\ nodeB.embedding # Undefined
             THEN IF CosineThrows(nodeA.embedding[1], nodeB.embedding[1])
                  THEN Thrown(acc)
                  ELSE LET similarity ==
                               CalculateCosineSimilarity(nodeA.embedding[1], nodeB.embedding[1])
                       IN  ModalEmbeddingLoop(nodesArray, threshold, i, j + 1,
                               IF similarity >= threshold
                               THEN Append(acc, ModalSimilarityLink(nodeA, nodeB, similarity))
                               ELSE acc)
             ELSE ModalEmbeddingLoop(nodesArray, threshold, i, j + 1, acc)

\* BetterGraphModal.createTraditionalLinks; every file is in nodeMap
ModalCreateTraditionalLinks ==
    Flatten([i \in 1..Len(Files) |->
                [k \in 1..Len(ModalLinkDest[i]) |-> ModalReferenceLink(i, ModalLinkDest[i][k])]])

\* loadGraphData from its call to its first await: nodeMap is empty
ModalLoadStarted == Append(loads, <<>>)

\* the 'Use Semantic Similarity' checkbox: the setting, saveSettings(), loadGraphData()
ModalUseEmbeddingsChanged(value) ==
    /\ value # modalUse
    /\ Len(loads) < MaxModalLoads
    /\ modalUse' = value
    /\ loads' = ModalLoadStarted
    /\ UNCHANGED <<embedded, modalThreshold, modalNodes, modalLinks, builtWith, observed>>
    /\ UNCHANGED modalFrame

\* the 'Similarity Threshold' slider: loadGraphData() only if useEmbeddings is set
ModalThresholdInput(value) ==
    /\ value # modalThreshold
    /\ modalUse => Len(loads) < MaxModalLoads
    /\ modalThreshold' = value
    /\ loads' = IF modalUse THEN ModalLoadStarted ELSE loads
    /\ UNCHANGED <<embedded, modalUse, modalNodes, modalLinks, builtWith, observed>>
    /\ UNCHANGED modalFrame

\* generateEmbeddingsForAllNotes stores the embedding of one file
ModalEmbeddingStored(i, embedding) ==
    /\ embedded[i] = Undefined
    /\ embedded' = [embedded EXCEPT ![i] = Some(embedding)]
    /\ UNCHANGED <<modalUse, modalThreshold, modalNodes, modalLinks, loads, builtWith, observed>>
    /\ UNCHANGED modalFrame

\* loadGraphData of call c resumes from await getEmbeddingLocally(file.path) and runs
\* to its next await.  After the last file that is the end of the function: this.nodes,
\* this.links = [] and the link builder, with the settings as they are then.
ModalEmbeddingLoaded(c) ==
    /\ c \in 1..Len(loads)
    /\ LET i == Len(loads[c]) + 1
           nodeMap == Append(loads[c], ModalNode(i, embedded[i]))
           built == IF modalUse THEN ModalEmbeddingLoop(nodeMap, modalThreshold, 1, 2, <<>>)
                    ELSE Built(ModalCreateTraditionalLinks)
       IN  IF i < Len(Files)
           THEN /\ loads' = [loads EXCEPT ![c] = nodeMap]
                /\ UNCHANGED <<modalNodes, modalLinks, builtWith>>
           ELSE /\ loads' = RemoveAt(loads, c)
                /\ modalNodes' = nodeMap
                /\ modalLinks' = built.links
                /\ builtWith' = [useEmbeddings |-> modalUse,
                                 similarityThreshold |-> modalThreshold]
    /\ UNCHANGED <<embedded, modalUse, modalThreshold, observed>>
    /\ UNCHANGED modalFrame

\* startSimulation: one animation frame, updatePhysics and draw work on this.nodes and
\* this.links as they are
ModalAnimate ==
    /\ observed' = <<[nodes |-> modalNodes, links |-> modalLinks, builtWith |-> builtWith]>>
    /\ UNCHANGED <<embedded, modalUse, modalThreshold, modalNodes, modalLinks, loads, builtWith>>
    /\ UNCHANGED modalFrame

\* onOpen has run: loadGraphData is called and not awaited, then startSimulation
MInit ==
    /\ embedded = [i \in 1..Len(Files) |-> Undefined]
    /\ modalUse \in BOOLEAN
    /\ modalThreshold \in Thresholds
    /\ modalNodes = <<>>
    /\ modalLinks = <<>>
    /\ loads = << <<>> >>
    /\ builtWith = [useEmbeddings |-> modalUse, similarityThreshold |-> modalThreshold]
    /\ observed = <<>>

MIdle ==
    /\ embedded = [i \in 1..Len(Files) |-> Undefined]
    /\ modalUse = FALSE
    /\ modalThreshold = 600
    /\ modalNodes = <<>>
    /\ modalLinks = <<>>
    /\ loads = <<>>
    /\ builtWith = [useEmbeddings |-> FALSE, similarityThreshold |-> 600]
    /\ observed = <<>>

YIdle == FIdle /\ PIdle /\ CIdle /\ SIdle /\ MIdle

XIdle0 == EIdle /\ WIdle /\ TIdle

XIdle == XIdle0 /\ YIdle

GInit ==
    /\ vault \in LinkVaults \cup TagVaults
    /\ useEmbeddings \in BOOLEAN
    /\ similarityThreshold \in Thresholds
    /\ showTags \in BOOLEAN
    /\ nodes = <<>>
    /\ links = <<>>
    /\ loadStatus = "none"
    /\ lastLoad = <<>>
    /\ firstRun = <<>>

GInitRebuild ==
    /\ vault \in RebuildVaults
    /\ useEmbeddings \in BOOLEAN
    /\ similarityThreshold \in Thresholds
    /\ showTags \in BOOLEAN
    /\ nodes = <<>>
    /\ links = <<>>
    /\ loadStatus = "none"
    /\ lastLoad = <<>>
    /\ firstRun = <<>>

GNext ==
    \/ LoadGraphData
    \/ \E value \in BOOLEAN : SetUseEmbeddings(value)
    \/ \E value \in Thresholds : SetSimilarityThreshold(value)
    \/ \E value \in BOOLEAN : SetShowTags(value)

RInit ==
    /\ sims = <<>>
    /\ isAnimating = TRUE
    /\ svg = "none"
    /\ dragging = FALSE
    /\ destroyed = FALSE
    /\ tickedAfterDestroy = FALSE

GIdle ==
    /\ vault = <<>>
    /\ useEmbeddings = FALSE
    /\ similarityThreshold = 300
    /\ showTags = FALSE
    /\ nodes = <<>>
    /\ links = <<>>
    /\ loadStatus = "none"
    /\ lastLoad = <<>>
    /\ firstRun = <<>>

RNext ==
    \/ Initialize
    \/ Tick
    \/ UpdateForces
    \/ UpdateLinkForce
    \/ Resize
    \/ \E animate \in BOOLEAN : ToggleAnimation(animate)
    \/ UpdateData
    \/ DragStart
    \/ DragEnd
    \/ Destroy

InitRenderer == RInit /\ GIdle /\ XIdle

SpecRenderer == InitRenderer /\ [][RNext]_vars

GNextRebuild ==
    \/ LoadGraphDataRecorded
    \/ \E value \in BOOLEAN : SetUseEmbeddings(value)
    \/ \E value \in Thresholds : SetSimilarityThreshold(value)
    \/ \E value \in BOOLEAN : SetShowTags(value)

InitGraph == GInit /\ RInit /\ XIdle

SpecGraph == InitGraph /\ [][GNext]_vars

InitRebuild == GInitRebuild /\ RInit /\ XIdle

SpecRebuild == InitRebuild /\ [][GNextRebuild]_vars

InitGeneration == EInit /\ RInit /\ GIdle /\ WIdle /\ TIdle /\ YIdle

ENext ==
    \/ \E trigger \in PluginTriggers : StartGeneration(trigger)
    \/ \E r \in 1..MaxRuns : \E outcome \in ReadOutcomes : GenRead(r, outcome)
    \/ \E r \in 1..MaxRuns : \E ok \in BOOLEAN : GenEmbed(r, ok)
    \/ \E r \in 1..MaxRuns : \E ok \in BOOLEAN : GenStore(r, ok)
    \/ \E r \in 1..MaxRuns : \E ok \in BOOLEAN : GenMeta(r, ok)
    \/ \E r \in 1..MaxRuns : GenDelay(r)

SpecGeneration == InitGeneration /\ [][ENext]_vars

InitView == WInit /\ GInitView /\ EInitView /\ RInit /\ TIdle /\ YIdle

VNext ==
    \/ OnOpenBegin
    \/ LoadSettled
    \/ OnClose
    \/ Tick
    \/ \E value \in BOOLEAN : ControlsUseEmbeddings(value)
    \/ \E value \in Thresholds : ControlsSimilarityThreshold(value)
    \/ ControlsReset
    \/ ControlsGenerate
    \/ \E r \in 1..MaxRuns : GenRead(r, "text")
    \/ \E r \in 1..MaxRuns : GenEmbed(r, TRUE)
    \/ \E r \in 1..MaxRuns : GenStore(r, TRUE)
    \/ \E r \in 1..MaxRuns : GenDelay(r)
    \/ \E r \in 1..MaxRuns : ControlsGenerateReturned(r)

SpecView == InitView /\ [][VNext]_vars

InitThickness == TInit /\ RInit /\ GIdle /\ EIdle /\ WIdle /\ YIdle

TNext == ComputeThickness

SpecThickness == InitThickness /\ [][TNext]_vars

\* the d3 timer keeps firing while a simulation runs
SpecRendererLive == InitRenderer /\ [][RNext]_vars /\ WF_vars(Tick)

InitForces == FInit /\ WInit /\ RInit /\ GIdle /\ EIdle /\ TIdle /\ PIdle /\ CIdle /\ SIdle /\ MIdle

FNext ==
    \/ ForcesInitialize
    \/ \E name \in ForceNames : \E value \in SliderValues(name) : ForceSlider(name, value)
    \/ ForceRefreshSettled

SpecForces == InitForces /\ [][FNext]_vars

InitNodes == PInit /\ RInit /\ GIdle /\ XIdle0 /\ FIdle /\ CIdle /\ SIdle /\ MIdle

PNext ==
    \/ NodesInitialize
    \/ NodesTick
    \/ \E n \in NodeIndexes : NodeDragStart(n)
    \/ \E p \in Points : NodeDrag(p)
    \/ NodeDragEnd
    \/ \E op \in NodeOperations : NodesUntouched(op)
    \/ NodesUpdateData

SpecNodes == InitNodes /\ [][PNext]_vars

InitCanvas == CInit /\ RInit /\ GIdle /\ XIdle0 /\ FIdle /\ PIdle /\ SIdle /\ MIdle

CNext ==
    \/ \E s \in CanvasSnapshots : CanvasInitialize(s)
    \/ \E s \in CanvasSnapshots : CanvasUpdateData(s)
    \/ CanvasFrame
    \/ \E c \in PointerPositions : OnMouseDown(c)
    \/ \E c \in PointerPositions : OnMouseMove(c)
    \/ OnMouseUp

SpecCanvas == InitCanvas /\ [][CNext]_vars

ZNext ==
    \/ \E s \in CanvasSnapshots : CanvasInitialize(s)
    \/ \E zoomOut \in BOOLEAN : OnWheel(zoomOut)

SpecZoom == InitCanvas /\ [][ZNext]_vars

InitData == SInit /\ RInit /\ GIdle /\ XIdle0 /\ FIdle /\ PIdle /\ CIdle /\ MIdle

SNext ==
    \/ \E filePath \in DataPaths : StoreLoaded(filePath)
    \/ \E filePath \in DataPaths : MetadataLoaded(filePath)
    \/ \E value \in SettingsValues : SettingsLoaded(value)
    \/ \E w \in 1..MaxWriters : DataSaved(w)

SpecData == InitData /\ [][SNext]_vars

InitModal == MInit /\ RInit /\ GIdle /\ XIdle0 /\ FIdle /\ PIdle /\ CIdle /\ SIdle

MNext ==
    \/ \E value \in BOOLEAN : ModalUseEmbeddingsChanged(value)
    \/ \E value \in Thresholds : ModalThresholdInput(value)
    \/ \E i \in 1..Len(Files) : \E embedding \in StoredEmbeddings[i] : ModalEmbeddingStored(i, embedding)
    \/ \E c \in 1..MaxModalLoads : ModalEmbeddingLoaded(c)
    \/ ModalAnimate

SpecModal == InitModal /\ [][MNext]_vars

(***************************************************************************)
(* Properties                                                              *)
(***************************************************************************)

\* C1: once destroy() has been called, no simulation tick fires any more
C1_NoTickAfterDestroy == ~tickedAfterDestroy

\* --- what the last run of loadGraphData did, read off the state ---
Loaded == loadStatus # "none"
HasEmbeddedNode == \E k \in 1..Len(nodes) : nodes[k].embedding # <<>>
UsedEmbeddingStrategy == Loaded /\ lastLoad[1].useEmbeddings /\ HasEmbeddedNode
UsedTraditionalStrategy == Loaded /\ ~(lastLoad[1].useEmbeddings /\ HasEmbeddedNode)
NodeIds == {nodes[k].id : k \in 1..Len(nodes)}
IsReferenceLink(l) == l.id = l.source \o <<"-", ">">> \o l.target
IsSimilarityLink(l) == l.id = l.source \o <<"<", "-", ">">> \o l.target
IsTagLink(l) == l.type = <<"tag-link">>
FileIndexes == 1..Len(Files)
References(i) == IF vault[i].links = <<>> THEN <<>> ELSE vault[i].links[1]
Embedded(i) == vault[i].embedding # <<>>

\* C2: after every completed loadGraphData, both endpoints of every link are ids of
\* nodes in this.nodes
C2_LinkEndpointsExist ==
    loadStatus = "done" =>
        \A k \in 1..Len(links) : links[k].source \in NodeIds /\ links[k].target \in NodeIds

\* a completed run that emitted reference links and tag links and dropped a reference
\* to an attachment
C2_Witness ==
    /\ loadStatus = "done"
    /\ \E k \in 1..Len(links) : IsReferenceLink(links[k])
    /\ \E k \in 1..Len(links) : IsTagLink(links[k])
    /\ \E i \in FileIndexes : \E r \in 1..Len(References(i)) : References(i)[r] \in Attachments

Qualifies(i, j) ==
    /\ Embedded(i) /\ Embedded(j)
    /\ Len(vault[i].embedding[1]) = Len(vault[j].embedding[1])
    /\ CalculateCosineSimilarity(vault[i].embedding[1], vault[j].embedding[1])
           >= lastLoad[1].similarityThreshold
PairLinks(i, j) ==
    {k \in 1..Len(links) :
        /\ links[k].similarity # <<>>
        /\ {links[k].source, links[k].target} = {Files[i], Files[j]}}
MismatchedPair ==
    \E i, j \in FileIndexes :
        /\ i < j /\ Embedded(i) /\ Embedded(j)
        /\ Len(vault[i].embedding[1]) # Len(vault[j].embedding[1])

\* C4: the similarity strategy emits exactly one link for every unordered pair of
\* distinct embedded documents whose similarity is >= the threshold, and no other
C4_OneLinkPerQualifyingPair ==
    UsedEmbeddingStrategy =>
        \A i, j \in FileIndexes :
            /\ i < j => Cardinality(PairLinks(i, j)) = (IF Qualifies(i, j) THEN 1 ELSE 0)
            /\ i = j => PairLinks(i, j) = {}

\* the links source->target among this.links, and the references of file i that
\* resolve to target
ReferenceLinks(s, t) ==
    {k \in 1..Len(links) :
        /\ links[k].source = s /\ links[k].target = t
        /\ IsReferenceLink(links[k])
        /\ links[k].thickness = <<[nan |-> FALSE, v |-> DefaultLinkThickness]>>}
ResolvingReferences(i, t) ==
    {r \in 1..Len(References(i)) : LinkDest(References(i)[r]) = <<t>>}

C6_RebuildIdempotent ==
    (loadStatus = "done" /\ firstRun # <<>> /\ lastLoad[1] = firstRun[1].settings) =>
        /\ NodeIds = firstRun[1].nodeIds
        /\ {links[k].id : k \in 1..Len(links)} = firstRun[1].linkIds

\* the settings of the first run were used again by a later completed run, with another
\* run in between or not, and the run produced links
C6_Witness ==
    /\ loadStatus = "done"
    /\ firstRun # <<>>
    /\ firstRun[1].rerun
    /\ lastLoad[1] = firstRun[1].settings
    /\ links # <<>>

\* C7: with two embeddings of unequal length the rebuild completes with the full node
\* set and the links of every qualifying pair
C7_MismatchDoesNotAbort ==
    (UsedEmbeddingStrategy /\ ~lastLoad[1].showTags /\ MismatchedPair) =>
        /\ loadStatus = "done"
        /\ Len(nodes) = Len(Files)
        /\ \A i, j \in FileIndexes : (i < j /\ Qualifies(i, j)) => PairLinks(i, j) # {}

\* C8: with showTags no value of an ai-tags field makes loadGraphData raise, and a
\* string that is not JSON contributes its quoted substrings
C8_AiTagsNeverRaise ==
    (UsedTraditionalStrategy /\ lastLoad[1].showTags) =>
        /\ loadStatus = "done"
        /\ \A i \in FileIndexes :
               (vault[i].aiTags.t = "string" /\ ~JsonParse(vault[i].aiTags.s).ok) =>
                   \A m \in 1..Len(QuotedMatches(vault[i].aiTags.s, 1)) :
                       (<<"#">> \o RemoveQuotes(QuotedMatches(vault[i].aiTags.s, 1)[m]))
                           \in NodeIds

\* the documents that reference a tag
Mentions(i) == {TagMentions(vault[i])[m] : m \in 1..Len(TagMentions(vault[i]))}
ReferencingFiles(tag) == {i \in FileIndexes : tag \in Mentions(i)}
TagNodeIndexes == {k \in 1..Len(nodes) : nodes[k].type = "tag"}

\* C9: one tag node per distinct tag, and its connectionCount is the number of
\* distinct documents that reference the tag
C9_ConnectionCountIsDocuments ==
    (Loaded /\ lastLoad[1].showTags) =>
        \A k \in TagNodeIndexes :
            /\ \A k2 \in TagNodeIndexes : nodes[k2].id = nodes[k].id => k2 = k
            /\ nodes[k].connectionCount = <<Cardinality(ReferencingFiles(nodes[k].id))>>

\* C10: every document that contributed to a tag node is linked to it
C10_ContributorsAreLinked ==
    (loadStatus = "done" /\ lastLoad[1].showTags) =>
        \A k \in TagNodeIndexes : \A i \in ReferencingFiles(nodes[k].id) :
            \E l \in 1..Len(links) :
                /\ IsTagLink(links[l])
                /\ links[l].source = Files[i]
                /\ links[l].target = nodes[k].id

C12_LinkIdsUnique ==
    Loaded => \A k, k2 \in 1..Len(links) : links[k].id = links[k2].id => k = k2

\* the runs that have returned, and the requests to the embeddings API in flight
FinishedRuns == {r \in 1..Len(runs) : Finished(runs[r])}
RequestsInFlight == {r \in 1..Len(runs) : runs[r].pc = "embed"}

\* C13: when the processing of a document fails, the run still processes every later
\* document, and the embeddings of the documents that succeeded are stored
C13_GenerationContinuesAfterFailure ==
    /\ \A r \in FinishedRuns :
           runs[r].failedAt > 0 =>
               \A i \in FileIndexes : i > runs[r].failedAt => runs[r].pc = "done"
    /\ succeeded \subseteq stored

\* C16: at most one getEmbedding request is in flight, and a delay separates two
\* consecutive requests
C16_GenerationSequential ==
    /\ Cardinality(RequestsInFlight) <= 1
    /\ ~unpaced

\* C14: when the view is closed while a generation started from the controls is in
\* flight, the completion of the generation does not run updateData on the destroyed
\* renderer
C14_NoRebuildAfterClose == ~staleRebuild

\* C15: every refresh() called once the view is open and the renderer initialized
\* rebuilds nodes and links and hands them to renderer.updateData
C15_RefreshRebuilds ==
    (lastRefresh # <<>> /\ lastRefresh[1].ready) =>
        /\ lastRefresh[1].outcome = "rebuilt"
        /\ rendererData = <<Snapshot(nodes, links)>>

\* C17: for every threshold below 1 and every min and max, a similarity equal to the
\* threshold is mapped to minLinkThickness and a similarity of 1 to maxLinkThickness
C17_ThicknessEndpoints ==
    (tResult # <<>> /\ tThreshold < 1000) =>
        /\ tSimilarity = tThreshold => tResult = <<Number(tMin)>>
        /\ tSimilarity = 1000 => tResult = <<Number(tMax)>>

\* the function was applied to a similarity of 1 under a threshold strictly between
\* 0 and 1, with min above max
C17_Witness ==
    /\ tResult # <<>>
    /\ tSimilarity = 1000
    /\ tThreshold = 300
    /\ tMin > tMax

\* C18: with a threshold of 1 the function returns maxLinkThickness for a similarity
\* of 1
C18_ThresholdOneGuarded ==
    (tResult # <<>> /\ tThreshold = 1000 /\ tSimilarity = 1000) =>
        tResult = <<Number(tMax)>>

\* C19: while isAnimating is false, that is from toggleAnimation(false) to the next
\* toggleAnimation(true), no simulation tick fires
C19_NoTickWhilePaused == [][Tick => isAnimating]_vars

\* C20: when from some point on no operation is invoked, so that only the timer
\* acts, and no node drag is left unfinished, the ticking eventually stops for good
C20_EventuallyStops == (<>[][Tick]_vars) => <>[](dragging \/ ~AnyRunning)

\* C29: at most one simulation of the renderer is running at any time
C29_AtMostOneSimulation ==
    Cardinality({i \in 1..Len(sims) : sims[i].running}) <= 1

\* C24: once the handler of a force slider and the refresh it started are over, the
\* simulation, if there is one, runs with the values of the settings and its alpha
\* has been set since the change
C24_ForcesFollowSettings ==
    (simForces # <<>> /\ refreshing = 0) => (simForces[1] = forces /\ reenergized)

\* a drag of node n has ended on the snapshot that is still the current one
Released(n) == lastPointer[n] # <<>> /\ subject # <<n>>

\* C21: after a drag of a node has ended, its fx,fy stay at the last pointer position
\* of the drag whatever is done to the same snapshot, and every tick leaves the node
\* at that position
C21_PinnedAfterDrag ==
    \A n \in DOMAIN lastPointer :
        Released(n) =>
            /\ fixed[n] = lastPointer[n]
            /\ tickedSince[n] => pos[n] = lastPointer[n][1]

C21_Witness ==
    \E n \in DOMAIN lastPointer :
        /\ Released(n)
        /\ tickedSince[n]
        /\ pos[n] = lastPointer[n][1]
        /\ pos[n] # CirclePoint(n)

\* C22: while a node of this.nodes is dragged and the pointer has supplied a position,
\* the node is at that position with velocity zero, also after a tick
C22_DraggedNodeFollowsPointer ==
    (DragIndex # 0 /\ dragPointer # <<>>) =>
        (cNodes[DragIndex].x = dragPointer[1] /\ cNodes[DragIndex].vx = 0)

\* C25: a mousedown chooses one of the nodes closest to the pointer among those within
\* nodeSize + 5, and starts no drag when there is none
C25_ClosestNodeChosen ==
    hit # <<>> =>
        IF hit[1].within = {} THEN hit[1].chosen = 0 ELSE hit[1].chosen \in hit[1].closest

\* the links of this.links whose source and target are both ids of nodes of this.nodes
LiveLinks == SelectSeq(cLinks, LAMBDA l : Find(cNodes, l.source) # 0 /\ Find(cNodes, l.target) # 0)

C27_ZoomClamped ==
    /\ [](zoom >= ZoomMin /\ zoom <= ZoomMax)
    /\ [][zoom' # zoom => cNodes' = cNodes]_vars

C27_Witness == snapshotNo > 0 /\ zoom = ZoomMax

\* C30: isDragging is true exactly when dragNode is not null, and then dragNode is a
\* node of the current this.nodes
C30_DragNodeInNodes ==
    /\ isDragging <=> dragNode # <<>>
    /\ isDragging => dragNode[1].snapshot = snapshotNo

\* C28: every path for which a storeEmbeddingLocally call has resolved has an
\* embedding that getEmbeddingLocally returns, as long as no store of the same path
\* and no "Clear Embeddings" follows
C28_NoLostEmbedding == \A filePath \in completed : GetEmbeddingLocally(filePath)

\* the pairs of nodes createEmbeddingBasedLinks is to link: both have an embedding, of
\* the same length, and their similarity reaches the threshold
QualifyingPairs(ns, threshold) ==
    { <<ns[q[1]].id, ns[q[2]].id>> : q \in
        { p \in (1..Len(ns)) \X (1..Len(ns)) :
            /\ p[1] < p[2]
            /\ ns[p[1]].embedding # Undefined /\ ns[p[2]].embedding # Undefined
            /\ ~CosineThrows(ns[p[1]].embedding[1], ns[p[2]].embedding[1])
            /\ CalculateCosineSimilarity(ns[p[1]].embedding[1], ns[p[2]].embedding[1])
                   >= threshold } }

CompleteGraph(g) ==
    IF g.nodes = <<>> THEN g.links = <<>>
    ELSE IF g.builtWith.useEmbeddings
    THEN { <<g.links[k].source, g.links[k].target>> : k \in 1..Len(g.links) }
             = QualifyingPairs(g.nodes, g.builtWith.similarityThreshold)
    ELSE g.links = ModalCreateTraditionalLinks

\* C23: the graph an animation-frame callback works on is never partially built: its
\* links are the complete link set of its nodes, also while loadGraphData calls are
\* suspended and overlap
C23_NoPartialGraph == \A k \in 1..Len(observed) : CompleteGraph(observed[k])

====
